---------------------------- MODULE Spec2Model ----------------------------
(***************************************************************************)
(* Route engine of atc-frontend (src/unnamed/part_000): the A* search over *)
(* a corridor grid, the line-of-sight path smoother and the waypoint       *)
(* annotator of RouteEngine.optimizeFlightPath.                            *)
(*                                                                         *)
(* Numbers.  JavaScript numbers are modelled by integers.  Two values of   *)
(* the language that are not integers are encoded by integers far outside  *)
(* the range of every height and cost of the model: NaN (what Math.max     *)
(* yields for an absent obstacleHeight) and Undefined (an absent field).   *)
(* All arithmetic and comparisons on altitudes go through operators that   *)
(* treat NaN as JavaScript does (NaN propagates, every comparison with it  *)
(* is false).                                                              *)
(*                                                                         *)
(* Distances.  lat/lon are held as planar metres and calculateDistance is  *)
(* the Euclidean distance rounded up to a whole metre (a metric, as the    *)
(* haversine distance is).  g and f scores are held multiplied by          *)
(* CRUISE_SPEED_MPS, so that dist / CRUISE_SPEED_MPS stays integral.       *)
(*                                                                         *)
(* Configuration.  ENGINE_CONFIG is the module-level object that           *)
(* RouteEngine.configure mutates in place; every tunable is read from it   *)
(* at the moment the code reads it.  CRUISE_SPEED_MPS is the one tunable   *)
(* configure is never given here, because the scores are scaled by it.     *)
(*                                                                         *)
(* Validation.  validateAndFixSegments is asynchronous: between the issue  *)
(* of an oracle query and its settlement other code of the page may run,   *)
(* RouteEngine.configure in particular.                                    *)
(***************************************************************************)
EXTENDS Integers, Sequences, FiniteSets, TLC

VARIABLES grid, pc, astar, pathNodes, smoothed, currentIdx, result

(* The module-level configuration object *)
VARIABLES ENGINE_CONFIG

(* One call of validateAndFixSegments: its arguments, its locals, the      *)
(* oracle query in flight, and what the oracle was asked and answered      *)
VARIABLES waypoints, viewer, fixedWaypoints, segmentIdx, vpc, outstanding,
          queries, clamped, validated

validation ==
    <<waypoints, viewer, fixedWaypoints, segmentIdx, vpc, outstanding,
      queries, clamped, validated>>

(* One request handled by the server's ATC proxy route: the request as    *)
(* the handler holds it, the handler's position, the response written to   *)
(* the client, and the requests axios has sent to the ATC server           *)
VARIABLES req, ppc, res, atcRequests

proxy == <<req, ppc, res, atcRequests>>

vars ==
    <<grid, pc, astar, pathNodes, smoothed, currentIdx, result,
      ENGINE_CONFIG, validation, proxy>>

-----------------------------------------------------------------------------
(* ENGINE_CONFIG *)
FAA_LIMIT_AGL == 121
SAFETY_BUFFER_M == 15
CRUISE_SPEED_MPS == 15
COST_CLIMB_PENALTY == 15
COST_LANE_CHANGE == 50
COST_PROXIMITY_PENALTY == 100
maxSegmentDistance == 15
checks == 5

(* ENGINE_CONFIG as the module is loaded *)
DefaultConfig ==
    [FAA_LIMIT_AGL |-> FAA_LIMIT_AGL,
     SAFETY_BUFFER_M |-> SAFETY_BUFFER_M,
     CRUISE_SPEED_MPS |-> CRUISE_SPEED_MPS,
     COST_CLIMB_PENALTY |-> COST_CLIMB_PENALTY,
     COST_LANE_CHANGE |-> COST_LANE_CHANGE,
     COST_PROXIMITY_PENALTY |-> COST_PROXIMITY_PENALTY]

(* JavaScript values that are not integers *)
NaN == -900000
Undefined == -800000

-----------------------------------------------------------------------------
(* Bounds of the model *)
MaxFeatures == 3
StepSpacing == 20
LaneSpacing == 10

(* Validation: features of a validated route's grid, the height of a tall  *)
(* surface the oracle reports, the safety buffer a configure call sets     *)
MaxValidatedFeatures == 1
TallSurface == 40
WideBuffer == 30

(* Long corridors: the most steps of a corridor of 3 lanes; the small      *)
(* lane-change penalty a configure call sets                               *)
MaxCorridorSteps == 10
SmallPenalty == 1

(* Folded grids: how far the second place of a cell is from the first *)
FarPlace == 300

(* Routes of two legs: the most obstacles of their grid *)
MaxLegFeatures == 2

(* Grid sizes (lanes, steps) the inputs are drawn from *)
GridSizes == {<<1, 3>>, <<2, 3>>, <<3, 2>>, <<3, 4>>}

(* What a sampled cell can hold besides flat ground: a low obstacle, an    *)
(* obstacle above the ceiling, high terrain                                *)
FlatCell == [terrainHeight |-> 0, obstacleHeight |-> 0]
FeatureCells ==
    { [terrainHeight |-> 0, obstacleHeight |-> 5],
      [terrainHeight |-> 0, obstacleHeight |-> 200],
      [terrainHeight |-> 110, obstacleHeight |-> 0] }

(* A cell whose obstacleHeight is absent *)
AbsentCell == [terrainHeight |-> 0, obstacleHeight |-> Undefined]

(* A cell below the reference level *)
SunkenCell == [terrainHeight |-> -50, obstacleHeight |-> -50]

-----------------------------------------------------------------------------
(* JavaScript arithmetic *)
ToNumber(x) == IF x = Undefined THEN NaN ELSE x

MathMax(a, b) ==
    LET x == ToNumber(a)
        y == ToNumber(b)
    IN  IF x = NaN \/ y = NaN THEN NaN ELSE IF x >= y THEN x ELSE y

Plus(a, b) ==
    LET x == ToNumber(a)
        y == ToNumber(b)
    IN  IF x = NaN \/ y = NaN THEN NaN ELSE x + y

Gt(a, b) ==
    LET x == ToNumber(a)
        y == ToNumber(b)
    IN  x # NaN /\ y # NaN /\ x > y

Lt(a, b) == Gt(b, a)

(* x || 0 *)
OrZero(x) == IF x = Undefined \/ x = NaN THEN 0 ELSE x

(* Math.round of the rational p / q, q > 0: halves go up *)
MathRound(p, q) == (2 * p + q) \div (2 * q)

MathAbs(x) == IF x < 0 THEN -x ELSE x

CeilSqrt(n) == CHOOSE r \in 0..n : r * r >= n /\ (r = 0 \/ (r - 1) * (r - 1) < n)

calculateDistance(p1, p2) ==
    LET dLat == p2.lat - p1.lat
        dLon == p2.lon - p1.lon
    IN  CeilSqrt(dLat * dLat + dLon * dLon)

-----------------------------------------------------------------------------
(* The corridor grid *)
numLanesOf(g) == Cardinality(DOMAIN g.lanes)
numStepsOf(g) == Cardinality(DOMAIN g.lanes[0])
centerLaneIdxOf(g) == numLanesOf(g) \div 2

Cells(size) == (0..(size[1] - 1)) \X (0..(size[2] - 1))

(* A grid of the given size, flat except at the cells of feat *)
MkGrid(size, feat) ==
    [lanes |->
        [l \in 0..(size[1] - 1) |->
            [s \in 0..(size[2] - 1) |->
                LET c == IF <<l, s>> \in DOMAIN feat THEN feat[<<l, s>>] ELSE FlatCell
                IN  [lat |-> s * StepSpacing, lon |-> l * LaneSpacing,
                     terrainHeight |-> c.terrainHeight,
                     obstacleHeight |-> c.obstacleHeight]]]]

(* grid.waypointIndices: absent, or start, one stop in between, end *)
WithStops(g, stops) ==
    IF stops = <<>> THEN g
    ELSE [lanes |-> g.lanes, waypointIndices |-> stops]

StopChoices(size) ==
    {<<>>} \cup (IF size[2] >= 3 THEN {<<0, size[2] - 2, size[2] - 1>>} ELSE {})

(* The sets of cells that hold a feature *)
FeatureSets(size) == { F \in SUBSET Cells(size) : Cardinality(F) <= MaxFeatures }

-----------------------------------------------------------------------------
(* Search nodes *)
Id(n) == <<n.step, n.lane>>

featureHeight(p) == MathMax(p.obstacleHeight, p.terrainHeight)
(* The altitude of the feature itself, with no buffer above it *)
unbufferedAlt(p) == featureHeight(p)

minSafeAlt(p) == Plus(featureHeight(p), ENGINE_CONFIG.SAFETY_BUFFER_M)
faaCeiling(p) == Plus(p.terrainHeight, ENGINE_CONFIG.FAA_LIMIT_AGL)

(* The gate with no transition skipped *)
GateSkipsNothing(p) == FALSE

(* The feasibility gate: the transition to p is skipped *)
Gated(p) == Gt(minSafeAlt(p), faaCeiling(p))

(* The candidates without the lane to the right *)
candidateLanesNoRight(g, lane) ==
    SelectSeq(<<lane - 1, lane>>, LAMBDA l : l >= 0 /\ l < numLanesOf(g))

(* Every lane of the grid a candidate *)
candidateLanesAll(g, lane) ==
    SelectSeq(<<0, 1, 2>>, LAMBDA l : l < numLanesOf(g))

candidateLanes(g, lane) ==
    SelectSeq(<<lane - 1, lane, lane + 1>>, LAMBDA l : l >= 0 /\ l < numLanesOf(g))

(* stepCost of the edge current -> (current.step + 1, nextLane), times     *)
(* CRUISE_SPEED_MPS                                                        *)
proximityCost(g, nextStep, nextLane, cruiseAlt) ==
    (IF nextLane > 0 /\ Gt(minSafeAlt(g.lanes[nextLane - 1][nextStep]), cruiseAlt)
        THEN ENGINE_CONFIG.COST_PROXIMITY_PENALTY ELSE 0)
  + (IF nextLane < numLanesOf(g) - 1
          /\ Gt(minSafeAlt(g.lanes[nextLane + 1][nextStep]), cruiseAlt)
        THEN ENGINE_CONFIG.COST_PROXIMITY_PENALTY ELSE 0)

(* The cost with a descent refunded as a climb is charged *)
stepCostSigned(g, current, nextLane) ==
    LET nextStep == current.step + 1
        nextPoint == g.lanes[nextLane][nextStep]
        currPoint == g.lanes[current.lane][current.step]
        targetAlt == minSafeAlt(nextPoint)
    IN  calculateDistance(currPoint, nextPoint)
          + CRUISE_SPEED_MPS
              * ((targetAlt - current.alt) * ENGINE_CONFIG.COST_CLIMB_PENALTY
                   + MathAbs(nextLane - current.lane) * ENGINE_CONFIG.COST_LANE_CHANGE
                   + proximityCost(g, nextStep, nextLane, MathMax(current.alt, targetAlt)))

stepCost(g, current, nextLane) ==
    LET nextStep == current.step + 1
        nextPoint == g.lanes[nextLane][nextStep]
        currPoint == g.lanes[current.lane][current.step]
        dist == calculateDistance(currPoint, nextPoint)
        targetAlt == minSafeAlt(nextPoint)
        currentAlt == current.alt
        altCost == IF Lt(currentAlt, targetAlt)
                     THEN (targetAlt - currentAlt) * ENGINE_CONFIG.COST_CLIMB_PENALTY
                     ELSE 0
        laneChangeCost ==
            MathAbs(nextLane - current.lane) * ENGINE_CONFIG.COST_LANE_CHANGE
        cruiseAlt == MathMax(currentAlt, targetAlt)
    IN  dist + CRUISE_SPEED_MPS
                 * (altCost + laneChangeCost
                      + proximityCost(g, nextStep, nextLane, cruiseAlt))

(* hScore of a point, times CRUISE_SPEED_MPS *)
hScore(g, p) ==
    calculateDistance(p, g.lanes[centerLaneIdxOf(g)][numStepsOf(g) - 1])

(* The altitude of the next cell alone, the predecessor's forgotten *)
newAltOwn(current, nextPoint) == minSafeAlt(nextPoint)

newAlt(current, nextPoint) == MathMax(current.alt, minSafeAlt(nextPoint))

(* tentativeG < (gScore[nextId] || Infinity) *)
Improves(gScore, nextId, tentativeG) ==
    IF nextId \in DOMAIN gScore /\ gScore[nextId] # 0
       THEN tentativeG < gScore[nextId]
       ELSE TRUE

(* f @@ (k :> v), written out *)
Put(f, k, v) == [x \in DOMAIN f \cup {k} |-> IF x = k THEN v ELSE f[x]]

(* openSet.sort((a, b) => a.fScore - b.fScore): a stable sort *)
RECURSIVE InsertByF(_, _)
InsertByF(sorted, n) ==
    IF sorted = <<>> THEN <<n>>
    ELSE IF Head(sorted).fScore <= n.fScore
            THEN <<Head(sorted)>> \o InsertByF(Tail(sorted), n)
            ELSE <<n>> \o sorted

RECURSIVE SortByF(_)
SortByF(s) ==
    IF s = <<>> THEN <<>>
    ELSE InsertByF(SortByF(SubSeq(s, 1, Len(s) - 1)), s[Len(s)])

startNode(g) ==
    [step |-> 0, lane |-> centerLaneIdxOf(g), gScore |-> 0, fScore |-> 0,
     alt |-> g.lanes[centerLaneIdxOf(g)][0].terrainHeight]

(* The state of one optimizeFlightPath call before its loop *)
SearchInit(g) ==
    [openSet |-> <<startNode(g)>>,
     closedSet |-> {},
     cameFrom |-> << >>,
     gScore |-> Put(<< >>, Id(startNode(g)), 0),
     finalNode |-> << >>,
     nodesVisited |-> 0]

IsGoal(g, n) == n.step = numStepsOf(g) - 1 /\ n.lane = centerLaneIdxOf(g)

(* One candidate, pushed as a new entry even when the open set holds one   *)
RelaxAlwaysPushing(g, s, current, nextLane) ==
    LET nextStep == current.step + 1
        nextId == <<nextStep, nextLane>>
        nextPoint == g.lanes[nextLane][nextStep]
        tentativeG == s.gScore[Id(current)] + stepCost(g, current, nextLane)
    IN  IF nextId \in s.closedSet THEN s
        ELSE IF Gated(nextPoint) THEN s
        ELSE IF ~Improves(s.gScore, nextId, tentativeG) THEN s
        ELSE [s EXCEPT
                !.cameFrom = Put(@, nextId, current),
                !.gScore = Put(@, nextId, tentativeG),
                !.openSet =
                    Append(@, [step |-> nextStep, lane |-> nextLane,
                               gScore |-> tentativeG,
                               fScore |-> tentativeG + hScore(g, nextPoint),
                               alt |-> newAlt(current, nextPoint)])]

(* One candidate, with the ceiling taken at the cell the transition leaves: *)
(* a gate on the edge                                                      *)
RelaxGatingEdges(g, s, current, nextLane) ==
    LET nextStep == current.step + 1
        nextId == <<nextStep, nextLane>>
        nextPoint == g.lanes[nextLane][nextStep]
        tentativeG == s.gScore[Id(current)] + stepCost(g, current, nextLane)
        entry == [step |-> nextStep, lane |-> nextLane, gScore |-> tentativeG,
                  fScore |-> tentativeG + hScore(g, nextPoint),
                  alt |-> newAlt(current, nextPoint)]
        inOpen == \E i \in 1..Len(s.openSet) : Id(s.openSet[i]) = nextId
    IN  IF nextId \in s.closedSet THEN s
        ELSE IF Gt(minSafeAlt(nextPoint),
                   faaCeiling(g.lanes[current.lane][current.step])) THEN s
        ELSE IF ~Improves(s.gScore, nextId, tentativeG) THEN s
        ELSE [s EXCEPT
                !.cameFrom = Put(@, nextId, current),
                !.gScore = Put(@, nextId, tentativeG),
                !.openSet =
                    IF inOpen
                       THEN [i \in 1..Len(@) |->
                               IF Id(@[i]) = nextId THEN entry ELSE @[i]]
                       ELSE Append(@, entry)]

(* One candidate of the loop over candidateLanes *)
Relax(g, s, current, nextLane) ==
    LET nextStep == current.step + 1
        nextId == <<nextStep, nextLane>>
        nextPoint == g.lanes[nextLane][nextStep]
        tentativeG == s.gScore[Id(current)] + stepCost(g, current, nextLane)
        entry == [step |-> nextStep, lane |-> nextLane, gScore |-> tentativeG,
                  fScore |-> tentativeG + hScore(g, nextPoint),
                  alt |-> newAlt(current, nextPoint)]
        inOpen == \E i \in 1..Len(s.openSet) : Id(s.openSet[i]) = nextId
    IN  IF nextId \in s.closedSet THEN s
        ELSE IF Gated(nextPoint) THEN s
        ELSE IF ~Improves(s.gScore, nextId, tentativeG) THEN s
        ELSE [s EXCEPT
                !.cameFrom = Put(@, nextId, current),
                !.gScore = Put(@, nextId, tentativeG),
                !.openSet =
                    IF inOpen
                       THEN [i \in 1..Len(@) |->
                               IF Id(@[i]) = nextId THEN entry ELSE @[i]]
                       ELSE Append(@, entry)]

RECURSIVE RelaxAll(_, _, _, _)
RelaxAll(g, s, current, lanes) ==
    IF lanes = <<>> THEN s
    ELSE RelaxAll(g, Relax(g, s, current, Head(lanes)), current, Tail(lanes))

(* One iteration of the while loop that does not pop the goal *)
ExpandStep(g, s) ==
    LET sorted == SortByF(s.openSet)
        current == Head(sorted)
        popped == [s EXCEPT !.openSet = Tail(sorted),
                            !.nodesVisited = @ + 1,
                            !.closedSet = @ \cup {Id(current)}]
    IN  IF current.step + 1 >= numStepsOf(g) THEN popped
        ELSE RelaxAll(g, popped, current, candidateLanes(g, current.lane))

Current(s) == Head(SortByF(s.openSet))

(* The iteration that pops the goal: finalNode = current; break *)
GoalStep(g, s) ==
    LET sorted == SortByF(s.openSet)
    IN  [s EXCEPT !.openSet = Tail(sorted),
                  !.nodesVisited = @ + 1,
                  !.finalNode = <<Head(sorted)>>]

(* The whole while loop *)
RECURSIVE RunSearch(_, _)
RunSearch(g, s) ==
    IF s.openSet = <<>> THEN s
    ELSE IF IsGoal(g, Current(s)) THEN GoalStep(g, s)
    ELSE RunSearch(g, ExpandStep(g, s))

(* pathNodes: finalNode and its predecessors, reversed *)
RECURSIVE Backtrack(_, _)
Backtrack(cameFrom, curr) ==
    IF Id(curr) \in DOMAIN cameFrom
       THEN Append(Backtrack(cameFrom, cameFrom[Id(curr)]), curr)
       ELSE <<curr>>

-----------------------------------------------------------------------------
(* Path smoothing.  Indices are those of the code (from 0).                *)
At(seq, i) == seq[i + 1]

RECURSIVE MaxAltBetween(_, _, _, _)
MaxAltBetween(allNodes, i, endIdx, acc) ==
    IF i > endIdx THEN acc
    ELSE MaxAltBetween(allNodes, i + 1, endIdx, MathMax(acc, At(allNodes, i).alt))

cellHeight(p) == MathMax(OrZero(p.obstacleHeight), OrZero(p.terrainHeight))

(* The checks of one sample of isLineOfSightClear *)
SampleClear(g, midStep, midLane, maxAlt) ==
    /\ ~(midLane < 0 \/ midLane >= numLanesOf(g))
    /\ ~(midStep < 0 \/ midStep >= numStepsOf(g))
    /\ ~Gt(Plus(cellHeight(g.lanes[midLane][midStep]),
                ENGINE_CONFIG.SAFETY_BUFFER_M), maxAlt)
    /\ (midLane > 0 =>
          ~Gt(Plus(cellHeight(g.lanes[midLane - 1][midStep]),
                   ENGINE_CONFIG.SAFETY_BUFFER_M), maxAlt))
    /\ (midLane < numLanesOf(g) - 1 =>
          ~Gt(Plus(cellHeight(g.lanes[midLane + 1][midStep]),
                   ENGINE_CONFIG.SAFETY_BUFFER_M), maxAlt))

numSamplesOf(startIdx, endIdx) ==
    IF (endIdx - startIdx) * 2 > 5 THEN (endIdx - startIdx) * 2 ELSE 5

isLineOfSightClear(start, end, allNodes, startIdx, endIdx, g) ==
    LET maxAlt == MaxAltBetween(allNodes, startIdx, endIdx, MathMax(start.alt, end.alt))
        numSamples == numSamplesOf(startIdx, endIdx)
    IN  \A i \in 1..(numSamples - 1) :
            SampleClear(g,
                MathRound(start.step * numSamples + i * (end.step - start.step), numSamples),
                MathRound(start.lane * numSamples + i * (end.lane - start.lane), numSamples),
                maxAlt)

(* The inner loop of smoothPath over targetIdx *)
RECURSIVE ScanTargets(_, _, _, _, _)
ScanTargets(nodes, g, cur, targetIdx, furthestValid) ==
    IF targetIdx >= Len(nodes) THEN furthestValid
    ELSE ScanTargets(nodes, g, cur, targetIdx + 1,
            IF isLineOfSightClear(At(nodes, cur), At(nodes, targetIdx),
                                  nodes, cur, targetIdx, g)
               THEN targetIdx ELSE furthestValid)

(* The scan given up at the first blocked target *)
RECURSIVE ScanUntilBlocked(_, _, _, _, _)
ScanUntilBlocked(nodes, g, cur, targetIdx, furthestValid) ==
    IF targetIdx >= Len(nodes) THEN furthestValid
    ELSE IF isLineOfSightClear(At(nodes, cur), At(nodes, targetIdx),
                               nodes, cur, targetIdx, g)
            THEN ScanUntilBlocked(nodes, g, cur, targetIdx + 1, targetIdx)
            ELSE furthestValid

furthestValidUntilBlocked(nodes, g, cur) ==
    ScanUntilBlocked(nodes, g, cur, cur + 2, cur + 1)

(* The scan taking the last node whatever the line-of-sight test says *)
furthestValidUntested(nodes, g, cur) == Len(nodes) - 1

furthestValidFrom(nodes, g, cur) == ScanTargets(nodes, g, cur, cur + 2, cur + 1)

(* The loop stopping one node early *)
smoothStopsEarly(nodes, cur) == cur < Len(nodes) - 2

(* The condition of the while loop of smoothPath *)
smoothContinues(nodes, cur) == cur < Len(nodes) - 1

(* The while loop of smoothPath *)
RECURSIVE SmoothLoop(_, _, _, _)
SmoothLoop(nodes, g, cur, out) ==
    IF smoothContinues(nodes, cur)
       THEN LET fv == furthestValidFrom(nodes, g, cur)
            IN  SmoothLoop(nodes, g, fv, Append(out, At(nodes, fv)))
       ELSE out

smoothPath(nodes, g) ==
    IF Len(nodes) <= 2 THEN nodes
    ELSE SmoothLoop(nodes, g, 0, <<At(nodes, 0)>>)

-----------------------------------------------------------------------------
(* Waypoint annotation *)
GroundPhases == {"GROUND_START", "GROUND_WAYPOINT", "GROUND_END"}

Waypoint(point, alt, phase) ==
    [lat |-> point.lat, lon |-> point.lon, alt |-> alt, phase |-> phase, prio |-> 1]

waypointIndicesOf(g) ==
    IF "waypointIndices" \in DOMAIN g THEN g.waypointIndices
    ELSE <<0, numStepsOf(g) - 1>>

RECURSIVE maxCruiseAltOf(_, _)
maxCruiseAltOf(nodes, acc) ==
    IF nodes = <<>> THEN acc
    ELSE maxCruiseAltOf(Tail(nodes), MathMax(acc, Head(nodes).alt))

(* The body of the loop with no corner marked and no segment bounded *)
VisitNodeNoCorner(g, w, node, cruise) ==
    IF node.lane # w.lastOutputLane
       THEN [out |-> Append(w.out, Waypoint(g.lanes[node.lane][node.step],
                                             cruise, "CRUISE")),
             lastOutputLane |-> node.lane,
             lastOutputNode |-> <<node>>,
             lastNodeBeforeLaneChange |-> <<node>>]
       ELSE [w EXCEPT !.lastNodeBeforeLaneChange = <<node>>]

(* The body of the loop over smoothedPath for a node inside the leg *)
VisitNode(g, w, node, cruise) ==
    LET nodePoint == g.lanes[node.lane][node.step]
    IN  IF node.lane # w.lastOutputLane
           THEN [out |-> Append(
                           IF w.lastNodeBeforeLaneChange # <<>>
                              THEN LET prev == w.lastNodeBeforeLaneChange[1]
                                   IN  Append(w.out,
                                          Waypoint(g.lanes[prev.lane][prev.step],
                                                   cruise, "CRUISE_CORNER"))
                              ELSE w.out,
                           Waypoint(nodePoint, cruise, "CRUISE")),
                 lastOutputLane |-> node.lane,
                 lastOutputNode |-> <<node>>,
                 lastNodeBeforeLaneChange |-> <<node>>]
        ELSE IF /\ w.lastOutputNode # <<>>
                /\ calculateDistance(
                      g.lanes[w.lastOutputNode[1].lane][w.lastOutputNode[1].step],
                      nodePoint) > maxSegmentDistance
           THEN [w EXCEPT !.out = Append(@, Waypoint(nodePoint, cruise,
                                                     "CRUISE_INTERMEDIATE")),
                          !.lastOutputNode = <<node>>,
                          !.lastNodeBeforeLaneChange = <<node>>]
        ELSE [w EXCEPT !.lastNodeBeforeLaneChange = <<node>>]

RECURSIVE LegWalk(_, _, _, _, _, _, _)
LegWalk(g, path, i, stepIdx, nextStepIdx, cruise, w) ==
    IF i >= Len(path) THEN w.out
    ELSE LET node == At(path, i)
         IN  LegWalk(g, path, i + 1, stepIdx, nextStepIdx, cruise,
                IF node.step > stepIdx /\ node.step < nextStepIdx
                   THEN VisitNode(g, w, node, cruise) ELSE w)

(* The last stop tested against the count instead of the last index *)
GroundPhaseOffByOne(wpIdx, count) ==
    IF wpIdx = 0 THEN "GROUND_START"
    ELSE IF wpIdx = count THEN "GROUND_END" ELSE "GROUND_WAYPOINT"

GroundPhase(wpIdx, count) ==
    IF wpIdx = 0 THEN "GROUND_START"
    ELSE IF wpIdx = count - 1 THEN "GROUND_END" ELSE "GROUND_WAYPOINT"

(* One iteration of the loop over waypointIndices *)
LegWaypoints(g, path, wpIdx, cruise, out) ==
    LET indices == waypointIndicesOf(g)
        center == centerLaneIdxOf(g)
        stepIdx == At(indices, wpIdx)
        point == g.lanes[center][stepIdx]
        isLast == wpIdx = Len(indices) - 1
        ground == Append(out, Waypoint(point, point.terrainHeight,
                                       GroundPhase(wpIdx, Len(indices))))
    IN  IF isLast THEN ground
        ELSE LET nextStepIdx == At(indices, wpIdx + 1)
                 walked == LegWalk(g, path, 0, stepIdx, nextStepIdx, cruise,
                              [out |-> Append(ground,
                                         Waypoint(point, cruise, "VERTICAL_ASCENT")),
                               lastOutputLane |-> center,
                               lastOutputNode |-> << >>,
                               lastNodeBeforeLaneChange |-> << >>])
             IN  Append(walked, Waypoint(g.lanes[center][nextStepIdx], cruise,
                                         "VERTICAL_DESCENT"))

RECURSIVE AllLegs(_, _, _, _, _)
AllLegs(g, path, wpIdx, cruise, out) ==
    IF wpIdx >= Len(waypointIndicesOf(g)) THEN out
    ELSE AllLegs(g, path, wpIdx + 1, cruise, LegWaypoints(g, path, wpIdx, cruise, out))

Minus(a, b) == IF ToNumber(a) = NaN \/ ToNumber(b) = NaN THEN NaN ELSE a - b

(* The value returned on success *)
Annotated(g, raw, smoothedPath, nodesVisited) ==
    LET cruise == maxCruiseAltOf(raw, 0)
        finalWaypoints == AllLegs(g, smoothedPath, 0, cruise, <<>>)
        agl == Minus(cruise, g.lanes[centerLaneIdxOf(g)][0].terrainHeight)
    IN  [success |-> TRUE,
         waypoints |-> finalWaypoints,
         optimizedPoints |-> Len(finalWaypoints),
         nodesVisited |-> nodesVisited,
         stats |-> [avgAGL |-> agl, maxAGL |-> agl, maxAltitude |-> cruise]]

NoPathResult == [success |-> FALSE, waypoints |-> <<>>, impossibleSegments |-> <<>>]

(* optimizeFlightPath as a function of the grid *)
optimizeFlightPath(g) ==
    LET s == RunSearch(g, SearchInit(g))
    IN  IF s.finalNode = <<>> THEN NoPathResult
        ELSE LET raw == Backtrack(s.cameFrom, s.finalNode[1])
             IN  Annotated(g, raw, smoothPath(raw, g), s.nodesVisited)

-----------------------------------------------------------------------------
(* RouteEngine.configure: Object.assign(ENGINE_CONFIG, config), or nothing *)
(* for a config that is not an object                                      *)
NotAnObject == [notAnObject |-> TRUE]

configure(config) ==
    IF config = NotAnObject THEN ENGINE_CONFIG
    ELSE [k \in DOMAIN ENGINE_CONFIG \cup DOMAIN config |->
            IF k \in DOMAIN config THEN config[k] ELSE ENGINE_CONFIG[k]]

-----------------------------------------------------------------------------
(* Segment validation.  An answer of the height oracle is null, or an      *)
(* array whose entries are the clamped height of a sample, or Undefined    *)
(* for a sample that could not be resolved.                                *)
NullAnswer == [null |-> TRUE]
ArrayAnswer(positions) == [array |-> positions]

(* The iteration for waypoints[idx] ends before any query is made *)
skipsSegment(wps, idx) ==
    IF idx = Len(wps) - 1 THEN TRUE
    ELSE IF At(wps, idx).phase \in GroundPhases THEN TRUE
    ELSE At(wps, idx).phase = "VERTICAL_ASCENT"
            \/ At(wps, idx + 1).phase = "VERTICAL_DESCENT"

(* a + (j / checks) * (b - a), in whole metres *)
Interpolate(a, b, j) == a + (j * (b - a)) \div checks

checkPositions(wp, nextWp) ==
    [j \in 1..(checks - 1) |->
        [lat |-> Interpolate(wp.lat, nextWp.lat, j),
         lon |-> Interpolate(wp.lon, nextWp.lon, j)]]

(* The sample compared with wp as if no buffer were required *)
collidesWithoutBuffer(wp, clampedPositions, j) ==
    /\ At(clampedPositions, j) # Undefined
    /\ Gt(OrZero(At(clampedPositions, j)), wp.alt)

(* The sample of index j (from 0) is resolved and too high for wp *)
collides(wp, clampedPositions, j) ==
    /\ At(clampedPositions, j) # Undefined
    /\ Gt(OrZero(At(clampedPositions, j)) + ENGINE_CONFIG.SAFETY_BUFFER_M, wp.alt)

detourAt(wp, nextWp, clampedPositions, j) ==
    LET obstacleHeight == OrZero(At(clampedPositions, j))
    IN  [lat |-> Interpolate(wp.lat, nextWp.lat, j + 1),
         lon |-> Interpolate(wp.lon, nextWp.lon, j + 1),
         alt |-> obstacleHeight + ENGINE_CONFIG.SAFETY_BUFFER_M + 10,
         obstacleHeight |-> obstacleHeight,
         phase |-> "CRUISE_DETOUR",
         prio |-> 1]

(* collisionPoints after the loop over clampedPositions *)
collisionPointsOf(wp, nextWp, clampedPositions) ==
    LET hits == SelectSeq([k \in 1..Len(clampedPositions) |-> k - 1],
                          LAMBDA j : collides(wp, clampedPositions, j))
    IN  [k \in 1..Len(hits) |-> detourAt(wp, nextWp, clampedPositions, hits[k])]

(* Every collision point pushed *)
pushEveryDetour(fixed, collisionPoints) == fixed \o collisionPoints

(* The detour pushed in the place of the segment's first waypoint *)
pushOverWaypoint(fixed, collisionPoints) ==
    IF Len(collisionPoints) > 0
       THEN Append(SubSeq(fixed, 1, Len(fixed) - 1), collisionPoints[1])
       ELSE fixed

(* The first and the last collision point pushed *)
pushDetours(fixed, collisionPoints) ==
    IF Len(collisionPoints) > 0
       THEN IF Len(collisionPoints) > 1
               THEN fixed \o <<collisionPoints[1],
                               collisionPoints[Len(collisionPoints)]>>
               ELSE Append(fixed, collisionPoints[1])
       ELSE fixed

(* What the rest of the iteration pushes once the oracle has answered *)
afterAnswer(fixed, wp, nextWp, clampedPositions) ==
    IF clampedPositions = NullAnswer \/ Len(clampedPositions.array) = 0 THEN fixed
    ELSE pushDetours(fixed, collisionPointsOf(wp, nextWp, clampedPositions.array))

(* The loop given up after a failed query *)
abandonsLoop(wps, idx) == Len(wps)

(* The index the loop goes on with once a failed query has been caught *)
afterCatch(wps, idx) == idx + 1

(* The loop going on while the query is in flight *)
doesNotSuspend == "loop"

(* Where the call is once it has issued a query: suspended on the await *)
suspends == "await"

-----------------------------------------------------------------------------
(* One call of optimizeFlightPath, step by step *)
Pending == [pending |-> TRUE]

(* No call of validateAndFixSegments has been made *)
NotValidating ==
    /\ waypoints = <<>>
    /\ viewer = FALSE
    /\ fixedWaypoints = <<>>
    /\ segmentIdx = 0
    /\ vpc = "idle"
    /\ outstanding = {}
    /\ queries = <<>>
    /\ clamped = <<>>
    /\ validated = Pending

(* A field a request does not carry; falsy like undefined *)
NoValue == ""

(* No request has reached the proxy route *)
NoRequest ==
    [method |-> NoValue, path |-> <<>>,
     session |-> [user |-> [id |-> NoValue, role |-> NoValue]],
     query |-> [drone_id |-> NoValue],
     body |-> [drone_id |-> NoValue, owner_id |-> NoValue]]

NoResponse == [status |-> 0, message |-> NoValue]

ProxyIdle ==
    /\ req = NoRequest
    /\ ppc = "idle"
    /\ res = NoResponse
    /\ atcRequests = <<>>

(* The module as loaded: default configuration, nothing validated, and a   *)
(* server that has handled nothing                                         *)
Loaded == ENGINE_CONFIG = DefaultConfig /\ NotValidating /\ ProxyIdle

(* optimizeFlightPath called on g *)
PlanOn(g) ==
    /\ grid = g
    /\ pc = "search"
    /\ astar = SearchInit(g)
    /\ pathNodes = <<>>
    /\ smoothed = <<>>
    /\ currentIdx = 0
    /\ result = Pending

InitWith(kinds) ==
    /\ Loaded
    /\ \E size \in GridSizes :
         \E F \in FeatureSets(size) :
           \E feat \in [F -> kinds] :
             \E stops \in StopChoices(size) :
               grid = WithStops(MkGrid(size, feat), stops)
    /\ pc = "search"
    /\ astar = SearchInit(grid)
    /\ pathNodes = <<>>
    /\ smoothed = <<>>
    /\ currentIdx = 0
    /\ result = Pending

Init == InitWith(FeatureCells)

(* The same call on grids that may also hold cells without obstacleHeight *)
InitAbsent == InitWith(FeatureCells \cup {AbsentCell})

Expand ==
    /\ pc = "search"
    /\ astar.openSet # <<>>
    /\ ~IsGoal(grid, Current(astar))
    /\ astar' = ExpandStep(grid, astar)
    /\ UNCHANGED <<grid, pc, pathNodes, smoothed, currentIdx, result>>
    /\ UNCHANGED <<ENGINE_CONFIG, validation, proxy>>

PopGoal ==
    /\ pc = "search"
    /\ astar.openSet # <<>>
    /\ IsGoal(grid, Current(astar))
    /\ astar' = GoalStep(grid, astar)
    /\ pc' = "found"
    /\ UNCHANGED <<grid, pathNodes, smoothed, currentIdx, result>>
    /\ UNCHANGED <<ENGINE_CONFIG, validation, proxy>>

NoPath ==
    /\ pc = "search"
    /\ astar.openSet = <<>>
    /\ result' = NoPathResult
    /\ pc' = "done"
    /\ UNCHANGED <<grid, astar, pathNodes, smoothed, currentIdx>>
    /\ UNCHANGED <<ENGINE_CONFIG, validation, proxy>>

(* Backtracking, and the entry of smoothPath *)
BacktrackPath ==
    /\ pc = "found"
    /\ pathNodes' = Backtrack(astar.cameFrom, astar.finalNode[1])
    /\ IF Len(pathNodes') <= 2
          THEN /\ smoothed' = pathNodes'
               /\ pc' = "annotate"
          ELSE /\ smoothed' = <<At(pathNodes', 0)>>
               /\ pc' = "smooth"
    /\ currentIdx' = 0
    /\ UNCHANGED <<grid, astar, result>>
    /\ UNCHANGED <<ENGINE_CONFIG, validation, proxy>>

SmoothIter ==
    /\ pc = "smooth"
    /\ smoothContinues(pathNodes, currentIdx)
    /\ currentIdx' = furthestValidFrom(pathNodes, grid, currentIdx)
    /\ smoothed' = Append(smoothed, At(pathNodes, currentIdx'))
    /\ UNCHANGED <<grid, pc, astar, pathNodes, result>>
    /\ UNCHANGED <<ENGINE_CONFIG, validation, proxy>>

SmoothReturn ==
    /\ pc = "smooth"
    /\ ~smoothContinues(pathNodes, currentIdx)
    /\ pc' = "annotate"
    /\ UNCHANGED <<grid, astar, pathNodes, smoothed, currentIdx, result>>
    /\ UNCHANGED <<ENGINE_CONFIG, validation, proxy>>

Annotate ==
    /\ pc = "annotate"
    /\ result' = Annotated(grid, pathNodes, smoothed, astar.nodesVisited)
    /\ pc' = "done"
    /\ UNCHANGED <<grid, astar, pathNodes, smoothed, currentIdx>>
    /\ UNCHANGED <<ENGINE_CONFIG, validation, proxy>>

Next ==
    \/ Expand
    \/ PopGoal
    \/ NoPath
    \/ BacktrackPath
    \/ SmoothIter
    \/ SmoothReturn
    \/ Annotate

Spec == Init /\ [][Next]_vars

SpecAbsent == InitAbsent /\ [][Next]_vars

(* optimizeFlightPath is synchronous: once called, its search loop runs on *)
(* until it is left, by the break or with the open set empty, and the      *)
(* code after the loop is entered.  For the iterations of the loop weak    *)
(* fairness is written out: the two actions of an iteration are enabled    *)
(* exactly when the loop's guard holds, and among the steps of Next they   *)
(* are the ones that count a visited node.                                 *)
LoopGuard == pc = "search" /\ astar.openSet # <<>>

Iteration == astar'.nodesVisited = astar.nodesVisited + 1

IterationFair == ([]<>(~LoopGuard)) \/ ([]<><<Iteration>>_vars)

SpecRunsOn ==
    /\ Init
    /\ [][Next]_vars
    /\ IterationFair
    /\ WF_vars(NoPath)
    /\ WF_vars(BacktrackPath)

(* The same call on grids that may also hold cells of negative height *)
InitSunken == InitWith(FeatureCells \cup {SunkenCell})

SpecSunken == InitSunken /\ [][Next]_vars

-----------------------------------------------------------------------------
(* RouteEngine.configure called before optimizeFlightPath: the planner is  *)
(* synchronous, so no call can fall inside it                              *)
ConfigureBefore(overrides) ==
    /\ pc = "search"
    /\ astar.nodesVisited = 0
    /\ \E config \in overrides : ENGINE_CONFIG' = configure(config)
    /\ UNCHANGED <<grid, pc, astar, pathNodes, smoothed, currentIdx, result>>
    /\ UNCHANGED <<validation, proxy>>

(* Corridors of 3 lanes, flat or with one obstacle above the ceiling,      *)
(* planned with the default or a small lane-change penalty                 *)
PenaltyOverrides ==
    { [COST_LANE_CHANGE |-> SmallPenalty],
      [COST_LANE_CHANGE |-> COST_LANE_CHANGE] }

TallObstacle == [terrainHeight |-> 0, obstacleHeight |-> 200]

InitCorridor ==
    /\ Loaded
    /\ \E numSteps \in 2..MaxCorridorSteps :
         \E F \in {{}} \cup { {c} : c \in Cells(<<3, numSteps>>) } :
           PlanOn(MkGrid(<<3, numSteps>>, [c \in F |-> TallObstacle]))

NextCorridor ==
    \/ ConfigureBefore(PenaltyOverrides)
    \/ Expand
    \/ PopGoal
    \/ NoPath
    \/ BacktrackPath
    \/ SmoothIter
    \/ SmoothReturn
    \/ Annotate

SpecCorridor == InitCorridor /\ [][NextCorridor]_vars

-----------------------------------------------------------------------------
(* Flat grids of 3 lanes and 4 steps whose samples need not be distinct    *)
(* places: each cell lies at the origin or FarPlace metres north of it.    *)
(* They are planned with the default weights or with lane changes and      *)
(* climbs free of charge.                                                  *)
FoldedGrid(far) ==
    [lanes |->
        [l \in 0..2 |->
            [s \in 0..3 |->
                [lat |-> IF <<l, s>> \in far THEN FarPlace ELSE 0,
                 lon |-> 0,
                 terrainHeight |-> 0,
                 obstacleHeight |-> 0]]]]

FreeOverrides ==
    { [COST_LANE_CHANGE |-> 0, COST_CLIMB_PENALTY |-> 0],
      [COST_LANE_CHANGE |-> COST_LANE_CHANGE,
       COST_CLIMB_PENALTY |-> COST_CLIMB_PENALTY] }

InitFolded ==
    /\ Loaded
    /\ \E far \in SUBSET Cells(<<3, 4>>) : PlanOn(FoldedGrid(far))

NextFolded ==
    \/ ConfigureBefore(FreeOverrides)
    \/ Expand
    \/ PopGoal
    \/ BacktrackPath
    \/ SmoothIter
    \/ SmoothReturn
    \/ Annotate

SpecFolded == InitFolded /\ [][NextFolded]_vars

-----------------------------------------------------------------------------
(* Routes of two legs over grids of 3 lanes and 5 steps with few           *)
(* obstacles: the stop in between is at step 1, 2 or 3                     *)
LegStops == { <<0, 1, 4>>, <<0, 2, 4>>, <<0, 3, 4>> }

InitLegs ==
    /\ Loaded
    /\ \E F \in { X \in SUBSET Cells(<<3, 5>>) : Cardinality(X) <= MaxLegFeatures } :
         \E feat \in [F -> { c \in FeatureCells : c.terrainHeight = 0 }] :
           \E stops \in LegStops :
             PlanOn(WithStops(MkGrid(<<3, 5>>, feat), stops))

SpecLegs == InitLegs /\ [][Next]_vars

-----------------------------------------------------------------------------
(* validateAndFixSegments(result.waypoints, viewer), step by step.  The    *)
(* code between two awaits runs without interruption; other code of the    *)
(* page runs only before the call or while it is suspended on the await.   *)
planning == <<grid, pc, astar, pathNodes, smoothed, currentIdx, result>>

(* What the oracle is let answer: a height for each of the samples, 0 or   *)
(* a tall surface whose height tells the samples apart; and answers that   *)
(* are null, empty, shorter, or hold unresolved samples                    *)
RegularAnswers ==
    { ArrayAnswer([j \in 1..(checks - 1) |-> IF j \in S THEN TallSurface + j ELSE 0]) :
        S \in SUBSET (1..(checks - 1)) }

IrregularAnswers ==
    { NullAnswer,
      ArrayAnswer(<<>>),
      ArrayAnswer(<<Undefined, TallSurface, Undefined, TallSurface + 1>>),
      ArrayAnswer(<<TallSurface, TallSurface + 1>>) }

OracleAnswers == RegularAnswers \cup IrregularAnswers

(* The configs configure is called with *)
Overrides ==
    { NotAnObject,
      [SAFETY_BUFFER_M |-> SAFETY_BUFFER_M],
      [SAFETY_BUFFER_M |-> WideBuffer] }

(* The call, up to the loop: if (!viewer || waypoints.length < 2) return   *)
ValidateCall ==
    /\ pc = "done"
    /\ vpc = "idle"
    /\ \E v \in BOOLEAN : viewer' = v
    /\ waypoints' = result.waypoints
    /\ IF ~viewer' \/ Len(waypoints') < 2
          THEN /\ validated' = waypoints'
               /\ vpc' = "returned"
          ELSE /\ validated' = validated
               /\ vpc' = "loop"
    /\ fixedWaypoints' = <<>>
    /\ segmentIdx' = 0
    /\ UNCHANGED <<proxy, planning, ENGINE_CONFIG, outstanding, queries, clamped>>

(* An iteration that ends at one of the three continue statements *)
SkipSegment ==
    /\ vpc = "loop"
    /\ segmentIdx < Len(waypoints)
    /\ skipsSegment(waypoints, segmentIdx)
    /\ fixedWaypoints' = Append(fixedWaypoints, At(waypoints, segmentIdx))
    /\ segmentIdx' = segmentIdx + 1
    /\ UNCHANGED <<proxy, planning, ENGINE_CONFIG, waypoints, viewer, vpc, outstanding,
                   queries, clamped, validated>>

(* An iteration up to its await: the samples are computed and the oracle   *)
(* is queried                                                              *)
IssueQuery ==
    /\ vpc = "loop"
    /\ segmentIdx < Len(waypoints)
    /\ ~skipsSegment(waypoints, segmentIdx)
    /\ fixedWaypoints' = Append(fixedWaypoints, At(waypoints, segmentIdx))
    /\ queries' = Append(queries,
                     [segment |-> segmentIdx,
                      positions |-> checkPositions(At(waypoints, segmentIdx),
                                                   At(waypoints, segmentIdx + 1))])
    /\ outstanding' = outstanding \cup {segmentIdx}
    /\ vpc' = suspends
    /\ UNCHANGED <<proxy, planning, ENGINE_CONFIG, waypoints, viewer, segmentIdx,
                   clamped, validated>>

(* The query resolves: the rest of the try block and of the iteration *)
OracleResolves ==
    /\ vpc = "await"
    /\ segmentIdx \in outstanding
    /\ \E clampedPositions \in OracleAnswers :
         /\ fixedWaypoints' = afterAnswer(fixedWaypoints,
                                          At(waypoints, segmentIdx),
                                          At(waypoints, segmentIdx + 1),
                                          clampedPositions)
         /\ clamped' = Append(clamped, [segment |-> segmentIdx, failed |-> FALSE,
                                        positions |-> clampedPositions])
    /\ outstanding' = outstanding \ {segmentIdx}
    /\ segmentIdx' = segmentIdx + 1
    /\ vpc' = "loop"
    /\ UNCHANGED <<proxy, planning, ENGINE_CONFIG, waypoints, viewer, queries, validated>>

(* The query rejects: the catch block, then the rest of the iteration with *)
(* collisionPoints still empty                                             *)
OracleRejects ==
    /\ vpc = "await"
    /\ segmentIdx \in outstanding
    /\ fixedWaypoints' = pushDetours(fixedWaypoints, <<>>)
    /\ clamped' = Append(clamped, [segment |-> segmentIdx, failed |-> TRUE,
                                   positions |-> NullAnswer])
    /\ outstanding' = outstanding \ {segmentIdx}
    /\ segmentIdx' = afterCatch(waypoints, segmentIdx)
    /\ vpc' = "loop"
    /\ UNCHANGED <<proxy, planning, ENGINE_CONFIG, waypoints, viewer, queries, validated>>

(* The loop is over: return fixedWaypoints *)
ValidateReturn ==
    /\ vpc = "loop"
    /\ segmentIdx >= Len(waypoints)
    /\ validated' = fixedWaypoints
    /\ vpc' = "returned"
    /\ UNCHANGED <<proxy, planning, ENGINE_CONFIG, waypoints, viewer, fixedWaypoints,
                   segmentIdx, outstanding, queries, clamped>>

(* RouteEngine.configure called for another request, after this request's  *)
(* plan was returned and before its validation, or while its validation is *)
(* suspended                                                               *)
ConfigureMeanwhile ==
    /\ pc = "done"
    /\ vpc \in {"idle", "await"}
    /\ \E config \in Overrides : ENGINE_CONFIG' = configure(config)
    /\ UNCHANGED <<proxy, planning, validation>>

(* Routes over flat terrain whose grid holds few obstacles *)
ObstacleCells == { c \in FeatureCells : c.terrainHeight = 0 }

InitValidate ==
    /\ Loaded
    /\ \E size \in GridSizes :
         \E F \in { X \in SUBSET Cells(size) : Cardinality(X) <= MaxValidatedFeatures } :
           \E feat \in [F -> ObstacleCells] :
             \E stops \in StopChoices(size) :
               PlanOn(WithStops(MkGrid(size, feat), stops))

NextValidate ==
    \/ Expand
    \/ PopGoal
    \/ NoPath
    \/ BacktrackPath
    \/ SmoothIter
    \/ SmoothReturn
    \/ Annotate
    \/ ValidateCall
    \/ SkipSegment
    \/ IssueQuery
    \/ OracleResolves
    \/ OracleRejects
    \/ ValidateReturn
    \/ ConfigureMeanwhile

SpecValidate == InitValidate /\ [][NextValidate]_vars

-----------------------------------------------------------------------------
(* The ATC proxy of server.js: app.all(`${ATC_PROXY_BASE}/*`, requireAuth, *)
(* handler).  A path is held as the sequence of the pieces it is made of,  *)
(* so that String.startsWith is the prefix order on sequences.             *)
ATC_PROXY_BASE == <<"/api/atc">>

startsWith(path, prefix) ==
    /\ Len(prefix) <= Len(path)
    /\ SubSeq(path, 1, Len(prefix)) = prefix

sliceFrom(path, n) == SubSeq(path, n + 1, Len(path))

(* The paths below the proxy base that requests are made to *)
AtcPaths ==
    { <<"/v1", "/geofences">>,
      <<"/v1", "/geofences", "/g1">>,
      <<"/v1", "/geofences", "/check">>,
      <<"/v1", "/geofences", "/check", "-route">>,
      <<"/v1", "/admin">>,
      <<"/v1", "/admin", "/reset">>,
      <<"/v1", "/commands">>,
      <<"/v1", "/commands", "/ack">>,
      <<"/v1", "/commands", "/c1">>,
      <<"/v1", "/flights">>,
      <<"/v1", "/drones">> }

Methods == { "GET", "POST", "PUT", "PATCH", "DELETE" }

(* Sessions that passed requireAuth: the roles the server hands out *)
Roles == { "authority", "operator", "guest" }

UserIds == { "u1", "u2" }

DroneIds == { "d1" }

Requests ==
    { [method |-> m, path |-> ATC_PROXY_BASE \o p,
       session |-> [user |-> [id |-> u, role |-> r]],
       query |-> [drone_id |-> qd],
       body |-> [drone_id |-> bd, owner_id |-> bo]] :
        m \in Methods, p \in AtcPaths, u \in { "u1" }, r \in Roles,
        qd \in DroneIds \cup { NoValue }, bd \in DroneIds \cup { NoValue },
        bo \in UserIds \cup { NoValue } }

(* req.path with the proxy base taken off *)
requestPath(r) ==
    IF startsWith(r.path, ATC_PROXY_BASE)
       THEN sliceFrom(r.path, Len(ATC_PROXY_BASE))
       ELSE r.path

requiresAuthorityForAtc(r) ==
    LET method == r.method
        path == requestPath(r)
    IN  IF method = "GET" THEN FALSE
        ELSE IF startsWith(path, <<"/v1", "/geofences", "/check">>) THEN FALSE
        ELSE IF startsWith(path, <<"/v1", "/geofences", "/check", "-route">>) THEN FALSE
        ELSE IF /\ startsWith(path, <<"/v1", "/geofences">>)
                /\ method \in { "POST", "PUT", "DELETE" } THEN TRUE
        ELSE IF startsWith(path, <<"/v1", "/admin">>) THEN TRUE
        ELSE FALSE

isAuthority(r) == r.session.user.role = "authority"

(* What GET ${ATC_URL}/v1/drones comes back with, as far as canAccessDrone *)
(* looks at it: a failure (thrown, or status >= 400), or the entry of the  *)
(* drone asked about                                                       *)
LookupFailed == [kind |-> "failed", owner_id |-> NoValue]

NoSuchDrone == [kind |-> "none", owner_id |-> NoValue]

DroneEntry(owner) == [kind |-> "drone", owner_id |-> owner]

DroneLookups ==
    { LookupFailed, NoSuchDrone } \cup { DroneEntry(o) : o \in UserIds \cup { NoValue } }

(* canAccessDrone once its lookup has come back *)
canAccessDrone(r, lookup) ==
    IF lookup.kind = "failed" THEN FALSE
    ELSE IF lookup.kind = "none" THEN TRUE
    ELSE IF lookup.owner_id = NoValue THEN TRUE
    ELSE lookup.owner_id = r.session.user.id

applyOwnerId(r, payload) ==
    IF isAuthority(r) THEN payload
    ELSE [payload EXCEPT !.owner_id = r.session.user.id]

WriteMethods == { "POST", "PUT", "PATCH", "DELETE" }

(* The states the handler can be left in by the code between two awaits *)
Answered(r, sent, status, message) ==
    [req |-> r, ppc |-> "answered", atcRequests |-> sent,
     res |-> [status |-> status, message |-> message]]

Awaiting(r, sent, at, request) ==
    [req |-> r, ppc |-> at, atcRequests |-> Append(sent, request), res |-> NoResponse]

(* undefined as the data of a request that carries none *)
NoData == [drone_id |-> NoValue, owner_id |-> NoValue]

DronesRequest ==
    [method |-> "GET", path |-> <<"/v1", "/drones">>, hasData |-> FALSE, data |-> NoData]

(* const data = ...; await axios({ method, url, data, ... }) *)
Forward(r, sent) ==
    Awaiting(r, sent, "forward",
             [method |-> r.method, path |-> requestPath(r),
              hasData |-> r.method \in WriteMethods,
              data |-> IF r.method \in WriteMethods THEN r.body ELSE NoData])

(* The /v1/flights block after its drone check *)
OwnerCheck(r, sent) ==
    IF r.body.owner_id # NoValue /\ r.body.owner_id # r.session.user.id
       THEN Answered(r, sent, 403, "forbidden_owner")
       ELSE Forward([r EXCEPT !.body = applyOwnerId(r, r.body)], sent)

FlightsBlock(r, sent) ==
    IF startsWith(requestPath(r), <<"/v1", "/flights">>) /\ r.method \in WriteMethods
       THEN IF r.body.drone_id # NoValue
               THEN Awaiting(r, sent, "flightsLookup", DronesRequest)
               ELSE OwnerCheck(r, sent)
       ELSE Forward(r, sent)

CommandsBlock(r, sent) ==
    LET path == requestPath(r)
        droneId == IF r.method = "GET" THEN r.query.drone_id ELSE r.body.drone_id
    IN  IF ~startsWith(path, <<"/v1", "/commands">>) THEN FlightsBlock(r, sent)
        ELSE IF r.method = "GET" /\ path = <<"/v1", "/commands">>
                THEN Answered(r, sent, 403, "insufficient_role")
        ELSE IF startsWith(path, <<"/v1", "/commands", "/ack">>)
                THEN Answered(r, sent, 403, "insufficient_role")
        ELSE IF droneId = NoValue
                THEN Answered(r, sent, 400, "missing_drone_id")
        ELSE Awaiting(r, sent, "commandsLookup", DronesRequest)

(* The handler from its first line to its first await or response *)
Handle(r, sent) ==
    IF requiresAuthorityForAtc(r) /\ r.session.user.role # "authority"
       THEN Answered(r, sent, 403, "insufficient_role")
    ELSE IF ~isAuthority(r) THEN CommandsBlock(r, sent)
    ELSE Forward(r, sent)

Becomes(state) ==
    /\ req' = state.req
    /\ ppc' = state.ppc
    /\ res' = state.res
    /\ atcRequests' = state.atcRequests

(* A request of a logged-in session arrives at the route *)
ProxyRequest ==
    /\ ppc = "idle"
    /\ \E r \in Requests : Becomes(Handle(r, atcRequests))
    /\ UNCHANGED <<planning, ENGINE_CONFIG, validation>>

(* const allowed = await canAccessDrone(req, droneId) comes back *)
DroneLookupReturns ==
    /\ ppc \in { "commandsLookup", "flightsLookup" }
    /\ \E lookup \in DroneLookups :
         IF ~canAccessDrone(req, lookup)
            THEN Becomes(Answered(req, atcRequests, 403, "forbidden_drone"))
         ELSE IF ppc = "commandsLookup"
            THEN Becomes(FlightsBlock(req, atcRequests))
         ELSE Becomes(OwnerCheck(req, atcRequests))
    /\ UNCHANGED <<planning, ENGINE_CONFIG, validation>>

(* The statuses the ATC server is let answer with *)
AtcStatuses == { 200, 404 }

(* The ATC server answers: res.status(response.status) *)
AtcResponds ==
    /\ ppc = "forward"
    /\ \E status \in AtcStatuses :
         Becomes(Answered(req, atcRequests, status, "upstream"))
    /\ UNCHANGED <<planning, ENGINE_CONFIG, validation>>

(* axios throws: 502 *)
AtcUnreachable ==
    /\ ppc = "forward"
    /\ Becomes(Answered(req, atcRequests, 502, "Failed to reach ATC server"))
    /\ UNCHANGED <<planning, ENGINE_CONFIG, validation>>

(* The server process alone: the page's planner is a different program *)
InitProxy ==
    /\ Loaded
    /\ PlanOn(MkGrid(<<1, 3>>, <<>>))

NextProxy ==
    \/ ProxyRequest
    \/ DroneLookupReturns
    \/ AtcResponds
    \/ AtcUnreachable

SpecProxy == InitProxy /\ [][NextProxy]_vars

-----------------------------------------------------------------------------
(* Paths of the search graph, given by the lane taken at each step *)
LanePaths(g) ==
    { ls \in [1..numStepsOf(g) -> 0..(numLanesOf(g) - 1)] :
        /\ ls[1] = centerLaneIdxOf(g)
        /\ ls[numStepsOf(g)] = centerLaneIdxOf(g)
        /\ \A i \in 1..(numStepsOf(g) - 1) : MathAbs(ls[i + 1] - ls[i]) <= 1 }

(* The cell's minimum safe altitude exceeds its ceiling *)
ExceedsCeiling(p) ==
    p.obstacleHeight # Undefined
    /\ (IF p.obstacleHeight >= p.terrainHeight THEN p.obstacleHeight ELSE p.terrainHeight)
          + SAFETY_BUFFER_M > p.terrainHeight + FAA_LIMIT_AGL

(* Every transition of the path is admissible *)
Admissible(g, ls) == \A i \in 2..Len(ls) : ~ExceedsCeiling(g.lanes[ls[i]][i - 1])

(* Sum of the stepCosts of a path from its i-th node on, reached at alt *)
RECURSIVE CostFrom(_, _, _, _)
CostFrom(g, ls, i, alt) ==
    IF i >= Len(ls) THEN 0
    ELSE LET current == [step |-> i - 1, lane |-> ls[i], alt |-> alt]
         IN  stepCost(g, current, ls[i + 1])
               + CostFrom(g, ls, i + 1, newAlt(current, g.lanes[ls[i + 1]][i]))

PathCost(g, ls) == CostFrom(g, ls, 1, startNode(g).alt)

RawLanes == [i \in 1..Len(pathNodes) |-> pathNodes[i].lane]

Succeeded == pc = "done" /\ result.success

(* C1: when optimizeFlightPath succeeds, the raw path has minimum total    *)
(* stepCost among all admissible paths from (0, center) to (last, center). *)
C1_RawPathHasMinimumCost ==
    Succeeded =>
        \A ls \in LanePaths(grid) :
            Admissible(grid, ls) => PathCost(grid, RawLanes) <= PathCost(grid, ls)

-----------------------------------------------------------------------------
(* Comparisons of JavaScript numbers: false when either side is NaN *)
Ge(a, b) == ToNumber(a) # NaN /\ ToNumber(b) # NaN /\ a >= b
Le(a, b) == Ge(b, a)

AllPoints(g) ==
    { g.lanes[l][s] : l \in DOMAIN g.lanes, s \in DOMAIN g.lanes[0] }

(* The grid cell at a waypoint's position *)
CellAt(g, wp) == CHOOSE p \in AllPoints(g) : p.lat = wp.lat /\ p.lon = wp.lon

Waypoints == result.waypoints
NonGround(wp) == wp.phase \notin GroundPhases

(* C2: every non-ground waypoint of a successful call is at least          *)
(* SAFETY_BUFFER_M above the terrain and the obstacle of the grid cell at  *)
(* its position.                                                           *)
C2_WaypointsClearTheirCell ==
    Succeeded =>
        \A i \in 1..Len(Waypoints) :
            NonGround(Waypoints[i]) =>
                Ge(Waypoints[i].alt,
                   cellHeight(CellAt(grid, Waypoints[i])) + SAFETY_BUFFER_M)

(* C3: every non-ground waypoint of a successful call is at most           *)
(* FAA_LIMIT_AGL above the terrain of the grid cell at its position.       *)
C3_WaypointsUnderCeiling ==
    Succeeded =>
        \A i \in 1..Len(Waypoints) :
            NonGround(Waypoints[i]) =>
                Le(Waypoints[i].alt,
                   CellAt(grid, Waypoints[i]).terrainHeight + FAA_LIMIT_AGL)

-----------------------------------------------------------------------------
StartId == <<0, centerLaneIdxOf(grid)>>
CellOf(id) == grid.lanes[id[2]][id[1]]

(* Every lane's cell at step st exceeds its ceiling *)
ColumnExceeds(st) == \A l \in DOMAIN grid.lanes : ExceedsCeiling(grid.lanes[l][st])
SomeColumnExceeds == \E st \in 1..(numStepsOf(grid) - 1) : ColumnExceeds(st)

(* C4: a node whose minimum safe altitude exceeds its ceiling is never in  *)
(* the open set, the closed set or the raw path (the start node excepted); *)
(* and when at some step >= 1 every lane's cell is such a node, the goal   *)
(* is never popped and the call returns success: false.                    *)
C4_GatedNodesNeverEntered ==
    /\ \A i \in 1..Len(astar.openSet) :
          Id(astar.openSet[i]) # StartId => ~ExceedsCeiling(CellOf(Id(astar.openSet[i])))
    /\ \A id \in astar.closedSet : id # StartId => ~ExceedsCeiling(CellOf(id))
    /\ \A i \in 2..Len(pathNodes) : ~ExceedsCeiling(CellOf(Id(pathNodes[i])))
    /\ SomeColumnExceeds =>
          /\ astar.finalNode = <<>>
          /\ pc = "done" => result = NoPathResult

(* A column beyond step 1 is closed and the search expanded nodes before   *)
(* it failed                                                               *)
C4_Witness ==
    /\ pc = "done"
    /\ \E st \in 2..(numStepsOf(grid) - 1) : ColumnExceeds(st)
    /\ Cardinality(astar.closedSet) > 1
    /\ result = NoPathResult

-----------------------------------------------------------------------------
SomeAdmissiblePath == \E ls \in LanePaths(grid) : Admissible(grid, ls)

(* C5: the call returns the failure value exactly when no sequence of      *)
(* admissible transitions leads from (0, center) to (last, center), which  *)
(* is when the open set is exhausted with no goal popped; in every other   *)
(* case it returns success: true.                                          *)
C5_FailsExactlyWhenNoPath ==
    pc = "done" =>
        /\ result = NoPathResult <=> ~SomeAdmissiblePath
        /\ result = NoPathResult <=> (astar.openSet = <<>> /\ astar.finalNode = <<>>)
        /\ result # NoPathResult => result.success = TRUE

(* The search failed after expanding beyond the start node *)
C5_Witness ==
    /\ pc = "done"
    /\ result = NoPathResult
    /\ ~SomeAdmissiblePath
    /\ Cardinality(astar.closedSet) > 2

-----------------------------------------------------------------------------
CruisePhases == {"CRUISE", "CRUISE_CORNER", "CRUISE_INTERMEDIATE"}
Phase(i) == Waypoints[i].phase
CountPhase(ph) == Cardinality({ i \in 1..Len(Waypoints) : Phase(i) = ph })

(* C6: with at least 2 waypointIndices the waypoints of a successful call  *)
(* are, per leg, a ground waypoint, VERTICAL_ASCENT, cruise waypoints,     *)
(* VERTICAL_DESCENT, and a final GROUND_END: every ascent directly follows *)
(* a ground waypoint, every descent is directly followed by one, and no    *)
(* two ascents are consecutive.                                            *)
C6_PhaseOrdering ==
    (Succeeded /\ Len(waypointIndicesOf(grid)) >= 2) =>
        LET n == Len(Waypoints) IN
        /\ Phase(1) = "GROUND_START"
        /\ Phase(n) = "GROUND_END"
        /\ CountPhase("VERTICAL_ASCENT") = Len(waypointIndicesOf(grid)) - 1
        /\ CountPhase("VERTICAL_DESCENT") = Len(waypointIndicesOf(grid)) - 1
        /\ \A i \in 1..n :
             /\ Phase(i) \in GroundPhases \cup CruisePhases
                               \cup {"VERTICAL_ASCENT", "VERTICAL_DESCENT"}
             /\ (Phase(i) \in GroundPhases /\ i < n) => Phase(i + 1) = "VERTICAL_ASCENT"
             /\ Phase(i) = "VERTICAL_ASCENT" =>
                   /\ i > 1 /\ Phase(i - 1) \in GroundPhases
                   /\ i < n /\ Phase(i + 1) \in CruisePhases \cup {"VERTICAL_DESCENT"}
             /\ Phase(i) \in CruisePhases =>
                   i < n /\ Phase(i + 1) \in CruisePhases \cup {"VERTICAL_DESCENT"}
             /\ Phase(i) = "VERTICAL_DESCENT" =>
                   i < n /\ Phase(i + 1) \in GroundPhases
             /\ (Phase(i) \in GroundPhases /\ 1 < i /\ i < n) => Phase(i) = "GROUND_WAYPOINT"

(* A route with an intermediate stop and cruise waypoints *)
C6_Witness ==
    /\ Succeeded
    /\ Len(waypointIndicesOf(grid)) = 3
    /\ \E i \in 1..Len(Waypoints) : Phase(i) = "CRUISE"
    /\ \E i \in 1..Len(Waypoints) : Phase(i) = "GROUND_WAYPOINT"

-----------------------------------------------------------------------------
SmoothingDone == pc \in {"annotate", "done"} /\ pathNodes # <<>>

(* C7: smoothPath is idempotent on the raw paths the search produces.      *)
C7_SmoothingIdempotent ==
    SmoothingDone => smoothPath(smoothed, grid) = smoothed

(* Index in the raw path of a node of the smoothed path: the raw path has  *)
(* one node per step                                                       *)
RawIdx(n) == CHOOSE i \in 0..(Len(pathNodes) - 1) : At(pathNodes, i) = n

ClearOverRaw(a, b) ==
    isLineOfSightClear(a, b, pathNodes, RawIdx(a), RawIdx(b), grid)

(* C8: the line-of-sight test over the raw sequence passes between every   *)
(* two consecutive nodes of smoothPath's output, those adjacent in the raw *)
(* path included.                                                          *)
C8_EveryKeptSegmentClear ==
    SmoothingDone =>
        \A k \in 1..(Len(smoothed) - 1) : ClearOverRaw(smoothed[k], smoothed[k + 1])

(* C8 as amended: the test passes between consecutive output nodes that    *)
(* are not adjacent in the raw path.                                       *)
C8_ShortcutSegmentsClear ==
    SmoothingDone =>
        \A k \in 1..(Len(smoothed) - 1) :
            RawIdx(smoothed[k + 1]) > RawIdx(smoothed[k]) + 1 =>
                ClearOverRaw(smoothed[k], smoothed[k + 1])

(* A shortcut was taken next to a feature, and a later raw edge was kept   *)
C8_Witness ==
    /\ SmoothingDone
    /\ \E k \in 1..(Len(smoothed) - 1) :
          RawIdx(smoothed[k + 1]) > RawIdx(smoothed[k]) + 1
    /\ \E k \in 1..(Len(smoothed) - 1) :
          /\ RawIdx(smoothed[k + 1]) = RawIdx(smoothed[k]) + 1
          /\ ~ClearOverRaw(smoothed[k], smoothed[k + 1])

-----------------------------------------------------------------------------
Last(seq) == seq[Len(seq)]

(* C9: for an input of at least 2 nodes the output of smoothPath starts    *)
(* with the input's first node and ends with its last node, and each       *)
(* iteration of the scan moves the anchor index forward by at least 1.     *)
C9_EndpointsKept ==
    /\ [](SmoothingDone =>
            /\ Len(pathNodes) >= 2
            /\ smoothed[1] = pathNodes[1]
            /\ Last(smoothed) = Last(pathNodes))
    /\ [][pc = "smooth" =>
            /\ currentIdx' >= currentIdx
            /\ smoothed' # smoothed => currentIdx' >= currentIdx + 1
            /\ currentIdx' <= Len(pathNodes) - 1]_vars

(* A scan that kept an inner node of a raw path of 4 nodes *)
C9_Witness ==
    /\ SmoothingDone
    /\ Len(pathNodes) = 4
    /\ Len(smoothed) = 3

-----------------------------------------------------------------------------
(* The grid with every absent obstacleHeight replaced by 0 *)
Zeroed(g) ==
    [g EXCEPT !.lanes =
        [l \in DOMAIN g.lanes |->
            [s \in DOMAIN g.lanes[l] |->
                [g.lanes[l][s] EXCEPT !.obstacleHeight = OrZero(@)]]]]

(* C10: planning on a grid with absent obstacleHeights gives the result    *)
(* of planning on the same grid with them replaced by 0.                   *)
C10_AbsentObstacleIsZero ==
    pc = "done" =>
        LET zero == optimizeFlightPath(Zeroed(grid))
        IN  /\ result.success = zero.success
            /\ result.waypoints = zero.waypoints

-----------------------------------------------------------------------------
(* The largest alt among the nodes of a path *)
MaxAltOf(nodes) ==
    CHOOSE a \in { nodes[k].alt : k \in 1..Len(nodes) } :
        \A k \in 1..Len(nodes) : a >= nodes[k].alt

(* C11: every VERTICAL_ASCENT, CRUISE, CRUISE_CORNER, CRUISE_INTERMEDIATE  *)
(* and VERTICAL_DESCENT waypoint of a successful call carries the same     *)
(* altitude, the maximum of node.alt over the nodes of the smoothed path,  *)
(* on grids with negative heights too.                                     *)
C11_CruiseAltitudeIsPathMaximum ==
    Succeeded =>
        \A k \in 1..Len(Waypoints) :
            NonGround(Waypoints[k]) => Waypoints[k].alt = MaxAltOf(smoothed)

-----------------------------------------------------------------------------
IsDetour(wp) == wp.phase = "CRUISE_DETOUR"

(* C12: a configure call made for another request between this request's   *)
(* plan and its validation, or while its validation is suspended on the    *)
(* oracle, does not change the safety buffer used for this request's       *)
(* remaining segments: every detour is placed with the buffer the request  *)
(* was planned with.                                                       *)
C12_ValidationKeepsItsConfig ==
    \A k \in 1..Len(fixedWaypoints) :
        IsDetour(fixedWaypoints[k]) =>
            fixedWaypoints[k].alt
                = fixedWaypoints[k].obstacleHeight + SAFETY_BUFFER_M + 10

-----------------------------------------------------------------------------
InputPhase(idx) == At(waypoints, idx).phase

(* The segments the oracle was queried for, in order *)
QueriedSegments == [k \in 1..Len(queries) |-> queries[k].segment]

(* The input waypoint a detour of fixedWaypoints was pushed after *)
RECURSIVE InputsBefore(_)
InputsBefore(k) ==
    IF k = 0 THEN 0
    ELSE InputsBefore(k - 1) + (IF IsDetour(fixedWaypoints[k]) THEN 0 ELSE 1)

(* C13: the oracle is queried, and a detour inserted, only for pairs made  *)
(* of two cruise-phase waypoints: never for a pair that holds a ground     *)
(* waypoint, a VERTICAL_ASCENT or a VERTICAL_DESCENT.                      *)
C13_OnlyCruisePairsSampled ==
    /\ \A k \in 1..Len(queries) :
          /\ InputPhase(queries[k].segment) \in CruisePhases
          /\ InputPhase(queries[k].segment + 1) \in CruisePhases
    /\ \A k \in 1..Len(fixedWaypoints) :
          IsDetour(fixedWaypoints[k]) =>
              /\ InputPhase(InputsBefore(k) - 1) \in CruisePhases
              /\ InputPhase(InputsBefore(k)) \in CruisePhases

-----------------------------------------------------------------------------
WithoutDetours(wps) == SelectSeq(wps, LAMBDA wp : ~IsDetour(wp))

Returned == vpc = "returned"

(* C14: the returned list holds every input waypoint once, unchanged and   *)
(* in the input's order, every other entry is a CRUISE_DETOUR, and the     *)
(* input list is the list the planner returned, unmodified; whatever the   *)
(* oracle answered.                                                        *)
C14_InsertOnly ==
    /\ vpc # "idle" =>
          /\ waypoints = result.waypoints
          /\ \A k \in 1..Len(waypoints) : ~IsDetour(waypoints[k])
          /\ WithoutDetours(fixedWaypoints) = SubSeq(waypoints, 1, InputsBefore(Len(fixedWaypoints)))
    /\ Returned => WithoutDetours(validated) = waypoints

(* A validation that returned with detours after a query had failed *)
C14_Witness ==
    /\ Returned
    /\ Len(validated) > Len(waypoints)
    /\ \E k \in 1..Len(clamped) : clamped[k].failed

-----------------------------------------------------------------------------
(* The pairs the loop does not skip, written from the phases *)
Validated(idx) ==
    /\ idx < Len(waypoints) - 1
    /\ InputPhase(idx) \notin GroundPhases \cup {"VERTICAL_ASCENT"}
    /\ InputPhase(idx + 1) # "VERTICAL_DESCENT"

RECURSIVE Ascending(_, _)
Ascending(from, to) ==
    IF from > to THEN <<>> ELSE <<from>> \o Ascending(from + 1, to)

ValidatedSegments ==
    SelectSeq(Ascending(0, Len(waypoints) - 1), LAMBDA idx : Validated(idx))

Rejection == vpc = "await" /\ Len(clamped') > Len(clamped) /\ Last(clamped').failed

(* C15: when the query of a segment fails no detour is inserted for it,    *)
(* the loop goes on with the next waypoint as after an answer without      *)
(* collision, and the call returns a list for which every later validated  *)
(* segment was queried.                                                    *)
C15_FailedQueryIsNoCollision ==
    /\ [][Rejection =>
            /\ fixedWaypoints' = fixedWaypoints
            /\ segmentIdx' = segmentIdx + 1
            /\ vpc' = "loop"
            /\ validated' = Pending]_vars
    /\ []((Returned /\ viewer /\ Len(waypoints) >= 2) =>
            /\ QueriedSegments = ValidatedSegments
            /\ Len(clamped) = Len(queries)
            /\ validated = fixedWaypoints)

(* The first of two queries failed and the second led to a detour *)
C15_Witness ==
    /\ Returned
    /\ Len(clamped) = 2
    /\ clamped[1].failed
    /\ ~clamped[2].failed
    /\ IsDetour(validated[Len(validated) - 1])

-----------------------------------------------------------------------------
(* C16: at most one oracle query is in flight, at most one is issued per   *)
(* segment, they are issued in increasing segment order, and a query is    *)
(* issued only once every earlier one has resolved or failed.              *)
C16_OneQueryAtATime ==
    /\ Cardinality(outstanding) <= 1
    /\ \A a, b \in 1..Len(queries) : a < b => queries[a].segment < queries[b].segment
    /\ outstanding # {} => vpc = "await" /\ outstanding = {Last(queries).segment}
    /\ Len(queries) = Len(clamped) + Cardinality(outstanding)
    /\ \A k \in 1..Len(clamped) : clamped[k].segment = queries[k].segment

(* The second query is in flight after the first one was settled *)
C16_Witness ==
    /\ vpc = "await"
    /\ Len(queries) = 2
    /\ Len(clamped) = 1

-----------------------------------------------------------------------------
(* The samples of an answer that collide, by index from 0, for the waypoint *)
(* wp and the safety buffer in force when the answer is processed           *)
Hits(answer, wp) ==
    IF "array" \notin DOMAIN answer THEN {}
    ELSE { j \in 0..(Len(answer.array) - 1) :
             /\ answer.array[j + 1] # Undefined
             /\ answer.array[j + 1] + ENGINE_CONFIG.SAFETY_BUFFER_M > wp.alt }

Least(S) == CHOOSE x \in S : \A y \in S : x <= y
Greatest(S) == CHOOSE x \in S : \A y \in S : x >= y

DetourOfSample(answer, idx, j) ==
    detourAt(At(waypoints, idx), At(waypoints, idx + 1), answer.array, j)

ExpectedDetours(answer, idx) ==
    LET hits == Hits(answer, At(waypoints, idx))
    IN  IF hits = {} THEN <<>>
        ELSE IF Cardinality(hits) = 1
                THEN <<DetourOfSample(answer, idx, Least(hits))>>
                ELSE <<DetourOfSample(answer, idx, Least(hits)),
                       DetourOfSample(answer, idx, Greatest(hits))>>

Settlement == vpc = "await" /\ Len(clamped') > Len(clamped)

(* C17: for a segment with k colliding samples exactly min(k, 2) detours   *)
(* are inserted directly after the segment's first waypoint: none, the one *)
(* collision, or the collision of least sample index followed by the one   *)
(* of greatest sample index; so the returned list is at most the input     *)
(* plus 2 entries per validated segment.                                   *)
C17_FirstAndLastDetour ==
    /\ [][Settlement =>
            /\ Last(fixedWaypoints) = At(waypoints, segmentIdx)
            /\ fixedWaypoints'
                 = fixedWaypoints
                     \o ExpectedDetours(Last(clamped').positions, segmentIdx)]_vars
    /\ [](Returned => Len(validated) <= Len(waypoints) + 2 * Len(queries))

(* An answer with 4 colliding samples led to 2 detours *)
C17_Witness ==
    /\ vpc = "loop"
    /\ clamped # <<>>
    /\ "array" \in DOMAIN Last(clamped).positions
    /\ Cardinality(Hits(Last(clamped).positions, At(waypoints, segmentIdx - 1))) = 4
    /\ Len(fixedWaypoints) >= 3
    /\ IsDetour(fixedWaypoints[Len(fixedWaypoints)])
    /\ IsDetour(fixedWaypoints[Len(fixedWaypoints) - 1])
    /\ ~IsDetour(fixedWaypoints[Len(fixedWaypoints) - 2])

-----------------------------------------------------------------------------
(* The node the loop is about to expand, when it has successors *)
Expanding ==
    /\ pc = "search"
    /\ astar.openSet # <<>>
    /\ ~IsGoal(grid, Current(astar))
    /\ Current(astar).step + 1 < numStepsOf(grid)

(* C18: every stepCost the search computes is >= 0, and on success the     *)
(* g-score of each node of the returned path, which is the g-score         *)
(* recorded for it, is the g-score of its predecessor plus the stepCost of *)
(* the edge between them evaluated with the predecessor's alt; so g starts *)
(* at 0, never decreases along the path and the goal's g-score is the      *)
(* path's total cost.                                                      *)
C18_CostsAddUp ==
    /\ Expanding =>
          \A k \in 1..Len(candidateLanes(grid, Current(astar).lane)) :
              stepCost(grid, Current(astar),
                       candidateLanes(grid, Current(astar).lane)[k]) >= 0
    /\ pathNodes # <<>> =>
          /\ pathNodes[1].gScore = 0
          /\ \A k \in 1..Len(pathNodes) :
                astar.gScore[Id(pathNodes[k])] = pathNodes[k].gScore
          /\ \A k \in 2..Len(pathNodes) :
                /\ pathNodes[k].gScore
                     = pathNodes[k - 1].gScore
                         + stepCost(grid, pathNodes[k - 1], pathNodes[k].lane)
                /\ pathNodes[k].gScore >= pathNodes[k - 1].gScore
          /\ Last(pathNodes).gScore = PathCost(grid, RawLanes)

(* A returned path of 4 nodes that changes lane and passes below the       *)
(* altitude it has reached                                                 *)
C18_Witness ==
    /\ Succeeded
    /\ Len(pathNodes) = 4
    /\ \E k \in 2..Len(pathNodes) : pathNodes[k].lane # pathNodes[k - 1].lane
    /\ \E k \in 2..Len(pathNodes) :
          Gt(pathNodes[k - 1].alt, minSafeAlt(CellOf(Id(pathNodes[k]))))

-----------------------------------------------------------------------------
(* Every terrainHeight and obstacleHeight of the grid is 0 *)
Flat ==
    \A p \in AllPoints(grid) : p.terrainHeight = 0 /\ p.obstacleHeight = 0

FlatScenario ==
    /\ Flat
    /\ numLanesOf(grid) = 3
    /\ numStepsOf(grid) >= 2
    /\ waypointIndicesOf(grid) = <<0, numStepsOf(grid) - 1>>
    /\ ENGINE_CONFIG.SAFETY_BUFFER_M = 15
    /\ ENGINE_CONFIG.FAA_LIMIT_AGL = 121
    /\ ENGINE_CONFIG.COST_LANE_CHANGE > 0

-----------------------------------------------------------------------------
(* What the search holds for a node: its predecessor and its entry in the  *)
(* open set (g-score, f-score, alt), if any                                *)
PredOf(s, id) == IF id \in DOMAIN s.cameFrom THEN <<s.cameFrom[id]>> ELSE <<>>
OpenEntryOf(s, id) ==
    SelectSeq(s.openSet, LAMBDA n : Id(n) = id)

Overwritten(id) ==
    \/ astar'.gScore[id] # astar.gScore[id]
    \/ PredOf(astar', id) # PredOf(astar, id)
    \/ /\ OpenEntryOf(astar, id) # <<>>
       /\ OpenEntryOf(astar', id) # <<>>
       /\ OpenEntryOf(astar', id) # OpenEntryOf(astar, id)

(* C20: during a search the g-score recorded for a node never increases,   *)
(* and its predecessor, g-score, f-score and alt are overwritten only by a *)
(* tentative g strictly smaller than the recorded one, a recorded g-score  *)
(* of 0 included.                                                          *)
C20_RecordedCostNeverIncreases ==
    [][pc = "search" =>
          \A id \in DOMAIN astar.gScore :
              /\ astar'.gScore[id] <= astar.gScore[id]
              /\ Overwritten(id) => astar'.gScore[id] < astar.gScore[id]]_vars

-----------------------------------------------------------------------------
(* The node objects the search holds besides the open set: the nodes       *)
(* popped so far that some node has as its predecessor, and the goal       *)
PoppedNodes ==
    { astar.cameFrom[id] : id \in DOMAIN astar.cameFrom }
        \cup { astar.finalNode[k] : k \in 1..Len(astar.finalNode) }

OpenNodes == { astar.openSet[k] : k \in 1..Len(astar.openSet) }

(* alt = max(predecessor.alt, minSafeAlt of the node's cell) *)
CarriesMaximum(n) ==
    /\ Id(n) \in DOMAIN astar.cameFrom
    /\ n.alt = MathMax(astar.cameFrom[Id(n)].alt, minSafeAlt(CellOf(Id(n))))

(* C21: each node other than the start that is in the open set or was      *)
(* popped has alt = max(alt of its recorded predecessor, min safe altitude *)
(* of its own cell); so along the raw path alt never decreases and every   *)
(* node after the start is at or above its own min safe altitude.          *)
C21_AltIsRunningMaximum ==
    /\ \A n \in OpenNodes \cup PoppedNodes : Id(n) # StartId => CarriesMaximum(n)
    /\ \A id \in astar.closedSet :
          /\ id = StartId \/ id \in DOMAIN astar.cameFrom
          /\ \A n \in OpenNodes : Id(n) # id
    /\ \A k \in 2..Len(pathNodes) :
          /\ pathNodes[k - 1] = astar.cameFrom[Id(pathNodes[k])]
          /\ pathNodes[k].alt
               = MathMax(pathNodes[k - 1].alt, minSafeAlt(CellOf(Id(pathNodes[k]))))
          /\ pathNodes[k].alt >= pathNodes[k - 1].alt
          /\ pathNodes[k].alt >= minSafeAlt(CellOf(Id(pathNodes[k])))

(* A returned path that climbs at its third node and then stays above the  *)
(* min safe altitude of the goal                                           *)
C21_Witness ==
    /\ Succeeded
    /\ Len(pathNodes) = 4
    /\ pathNodes[3].alt > pathNodes[2].alt
    /\ pathNodes[4].alt > minSafeAlt(CellOf(Id(pathNodes[4])))

-----------------------------------------------------------------------------
(* C22: on success the raw path has exactly numSteps nodes, the i-th at    *)
(* step i, from (0, center) to (numSteps - 1, center), consecutive nodes   *)
(* differ by at most 1 in lane and every lane is inside the grid; every    *)
(* transition the search records goes from a step to the next one.         *)
C22_OneNodePerStep ==
    /\ \A id \in DOMAIN astar.cameFrom :
          /\ astar.cameFrom[id].step = id[1] - 1
          /\ MathAbs(astar.cameFrom[id].lane - id[2]) <= 1
          /\ id[2] \in 0..(numLanesOf(grid) - 1)
          /\ id[1] \in 1..(numStepsOf(grid) - 1)
    /\ pathNodes # <<>> =>
          /\ Len(pathNodes) = numStepsOf(grid)
          /\ \A k \in 1..Len(pathNodes) :
                /\ pathNodes[k].step = k - 1
                /\ pathNodes[k].lane \in 0..(numLanesOf(grid) - 1)
          /\ Id(pathNodes[1]) = <<0, numLanesOf(grid) \div 2>>
          /\ Id(Last(pathNodes)) = <<numStepsOf(grid) - 1, numLanesOf(grid) \div 2>>
          /\ \A k \in 2..Len(pathNodes) :
                MathAbs(pathNodes[k].lane - pathNodes[k - 1].lane) <= 1

(* A returned path of 4 nodes that leaves the center lane, found after a   *)
(* node of an outer lane was expanded                                      *)
C22_Witness ==
    /\ Succeeded
    /\ Len(pathNodes) = 4
    /\ \E k \in 1..Len(pathNodes) : pathNodes[k].lane # centerLaneIdxOf(grid)
    /\ \E id \in DOMAIN astar.cameFrom : astar.cameFrom[id].lane = 0

-----------------------------------------------------------------------------
(* The nodes expanded so far that have successors, and the nodes the loop  *)
(* over candidateLanes offered from an expanded node                       *)
ExpandedIds == { id \in astar.closedSet : id[1] + 1 < numStepsOf(grid) }

OfferedFrom(id) ==
    { <<id[1] + 1, l>> : l \in { x \in {id[2] - 1, id[2], id[2] + 1} :
                                   x >= 0 /\ x < numLanesOf(grid) } }

(* A node is entered when a transition into it was admitted: only then is  *)
(* a g-score recorded for it                                               *)
Entered(id) == id \in DOMAIN astar.gScore

(* Some transition into the node was skipped by the gate while another was *)
(* admitted                                                                *)
MixedVerdict ==
    \E p \in ExpandedIds : \E n \in OfferedFrom(p) :
        Gated(CellOf(n)) /\ Entered(n)

(* C23: there are searches in which the gate skips the transition into a   *)
(* node from one predecessor and admits the transition into the same node  *)
(* from another predecessor.                                               *)
C23_GatePrunesEdges == <>MixedVerdict

(* C23 as amended: the gate prunes nodes.  A node offered from an expanded *)
(* node is entered exactly when its own min safe altitude does not exceed  *)
(* its own ceiling, whichever node it is offered from: a node one          *)
(* predecessor is refused is refused to every predecessor.                 *)
C23_GatePrunesNodes ==
    \A p \in ExpandedIds : \A n \in OfferedFrom(p) :
        Entered(n) <=> ~ExceedsCeiling(CellOf(n))

(* A node was refused to two expanded nodes of different altitude, and a   *)
(* path was found around it                                                *)
C23_Witness ==
    /\ Succeeded
    /\ \E n \in Cells(<<numStepsOf(grid), numLanesOf(grid)>>) :
          /\ ~Entered(n)
          /\ \E p1, p2 \in ExpandedIds :
                /\ n \in OfferedFrom(p1) \cap OfferedFrom(p2)
                /\ \E q1, q2 \in PoppedNodes :
                      /\ Id(q1) = p1
                      /\ Id(q2) = p2
                      /\ q1.alt # q2.alt

-----------------------------------------------------------------------------
(* The legs of the route: pairs of consecutive stops *)
Legs ==
    { <<At(waypointIndicesOf(grid), k), At(waypointIndicesOf(grid), k + 1)>> :
        k \in 0..(Len(waypointIndicesOf(grid)) - 2) }

InsideLeg(leg, n) == n.step > leg[1] /\ n.step < leg[2]

(* The nodes of the smoothed path inside the leg, in order *)
InnerNodes(leg) == SelectSeq(smoothed, LAMBDA n : InsideLeg(leg, n))

(* The position emitted before the k-th inner node of a leg flown on the   *)
(* center lane up to that node: the previous inner node, or the stop the   *)
(* leg ascends from                                                        *)
EmittedBefore(leg, k) ==
    IF k = 1 THEN grid.lanes[centerLaneIdxOf(grid)][leg[1]]
    ELSE CellOf(Id(InnerNodes(leg)[k - 1]))

OnCenterUpTo(leg, k) ==
    \A j \in 1..k : InnerNodes(leg)[j].lane = centerLaneIdxOf(grid)

IntermediateAt(p) ==
    \E i \in 1..Len(Waypoints) :
        /\ Phase(i) = "CRUISE_INTERMEDIATE"
        /\ Waypoints[i].lat = p.lat
        /\ Waypoints[i].lon = p.lon

(* C24: a node of the smoothed path strictly inside a leg whose lane is    *)
(* the last emitted lane gets a CRUISE_INTERMEDIATE waypoint whenever it   *)
(* is more than 15 m from the previously emitted position, also when no    *)
(* cruise waypoint has been emitted yet in the leg: a leg flown on the     *)
(* center lane over nodes more than 15 m apart has a CRUISE_INTERMEDIATE   *)
(* at each of them.                                                        *)
C24_IntermediateBoundsSegments ==
    Succeeded =>
        \A leg \in Legs :
            \A k \in 1..Len(InnerNodes(leg)) :
                (/\ OnCenterUpTo(leg, k)
                 /\ calculateDistance(EmittedBefore(leg, k),
                                      CellOf(Id(InnerNodes(leg)[k]))) > 15)
                    => IntermediateAt(CellOf(Id(InnerNodes(leg)[k])))

-----------------------------------------------------------------------------
(* The index in the returned list of the j-th waypoint of a phase *)
NthOfPhase(ph, j) ==
    CHOOSE i \in 1..Len(Waypoints) :
        /\ Phase(i) = ph
        /\ Cardinality({ x \in 1..i : Phase(x) = ph }) = j

(* What the j-th leg (from 1) emitted between its ascent and its descent,  *)
(* the CRUISE_INTERMEDIATE waypoints left out: phases and positions        *)
Marks(j) ==
    LET slice == SubSeq(Waypoints, NthOfPhase("VERTICAL_ASCENT", j) + 1,
                        NthOfPhase("VERTICAL_DESCENT", j) - 1)
        kept == SelectSeq(slice, LAMBDA wp : wp.phase # "CRUISE_INTERMEDIATE")
    IN  [k \in 1..Len(kept) |-> <<kept[k].phase, kept[k].lat, kept[k].lon>>]

Mark(ph, n) == <<ph, CellOf(Id(n)).lat, CellOf(Id(n)).lon>>

(* The lane last emitted before the k-th inner node of a leg is visited:   *)
(* the lane of the inner node before it, or the center lane                *)
LaneBefore(inner, k) ==
    IF k = 1 THEN centerLaneIdxOf(grid) ELSE inner[k - 1].lane

(* The marks the inner nodes from the k-th on are to leave *)
RECURSIVE MarksFrom(_, _)
MarksFrom(inner, k) ==
    IF k > Len(inner) THEN <<>>
    ELSE (IF inner[k].lane # LaneBefore(inner, k)
             THEN (IF k > 1 THEN <<Mark("CRUISE_CORNER", inner[k - 1])>> ELSE <<>>)
                     \o <<Mark("CRUISE", inner[k])>>
             ELSE <<>>)
           \o MarksFrom(inner, k + 1)

LegOf(j) ==
    <<At(waypointIndicesOf(grid), j - 1), At(waypointIndicesOf(grid), j)>>

(* C25: within each leg a CRUISE waypoint is emitted for exactly the       *)
(* smoothed-path nodes whose lane differs from the last emitted lane (the  *)
(* center lane at the start of the leg); a CRUISE_CORNER is emitted only   *)
(* directly before such a CRUISE, at the node visited just before the      *)
(* lane-changing node in the same leg, and not when the lane-changing node *)
(* is the first node visited in the leg.                                   *)
C25_CornersAndCruises ==
    Succeeded =>
        \A j \in 1..(Len(waypointIndicesOf(grid)) - 1) :
            Marks(j) = MarksFrom(InnerNodes(LegOf(j)), 1)

(* A route of two legs with a corner, whose second leg starts with a lane *)
(* change that gets no corner although the smoothed path holds a node at   *)
(* the stop before it                                                      *)
C25_Witness ==
    /\ Succeeded
    /\ Len(waypointIndicesOf(grid)) = 3
    /\ \E i \in 1..Len(Waypoints) : Phase(i) = "CRUISE_CORNER"
    /\ \E i \in 3..Len(Waypoints) :
          /\ Phase(i - 2) = "GROUND_WAYPOINT"
          /\ Phase(i - 1) = "VERTICAL_ASCENT"
          /\ Phase(i) = "CRUISE"
    /\ \E k \in 1..Len(smoothed) :
          smoothed[k].step = At(waypointIndicesOf(grid), 1)

-----------------------------------------------------------------------------
(* The raw indices beyond i + 1 the line of sight from index i is clear to *)
ClearTargets(i) ==
    { j \in (i + 2)..(Len(pathNodes) - 1) :
        isLineOfSightClear(At(pathNodes, i), At(pathNodes, j), pathNodes, i, j, grid) }

(* C26: for each kept node at raw index i that is not the last, the next   *)
(* kept node is the one at the largest index j > i + 1 with a clear line   *)
(* of sight from i, or the one at i + 1 when there is no such j; a blocked *)
(* nearer target does not keep the scan from a clear farther one.          *)
C26_FurthestClearTargetKept ==
    pathNodes # <<>> =>
        /\ smoothed[1] = pathNodes[1]
        /\ \A k \in 1..(Len(smoothed) - 1) :
              RawIdx(smoothed[k + 1])
                = IF ClearTargets(RawIdx(smoothed[k])) # {}
                     THEN Greatest(ClearTargets(RawIdx(smoothed[k])))
                     ELSE RawIdx(smoothed[k]) + 1
        /\ pc \in {"annotate", "done"} => Last(smoothed) = Last(pathNodes)

(* A scan that kept a target beyond a blocked one *)
C26_Witness ==
    /\ SmoothingDone
    /\ \E k \in 1..(Len(smoothed) - 1) :
          \E j \in (RawIdx(smoothed[k]) + 2)..(RawIdx(smoothed[k + 1]) - 1) :
              j \notin ClearTargets(RawIdx(smoothed[k]))

-----------------------------------------------------------------------------
(* What a settlement pushed behind the segment's first waypoint *)
Pushed == SubSeq(fixedWaypoints', Len(fixedWaypoints) + 1, Len(fixedWaypoints'))

(* The surface height the oracle returned for the sample of index j *)
SurfaceHeight(answer, j) == answer.array[j + 1]

(* The samples the oracle returned a height for that leave less than the   *)
(* safety buffer below the altitude of wp                                  *)
TooHigh(answer, wp) ==
    IF answer = NullAnswer THEN {}
    ELSE { j \in 0..(Len(answer.array) - 1) :
             /\ SurfaceHeight(answer, j) # Undefined
             /\ SurfaceHeight(answer, j) + ENGINE_CONFIG.SAFETY_BUFFER_M > wp.alt }

(* C27: a sample of a validated segment yields a detour exactly when the   *)
(* oracle returned a height for it and height + SAFETY_BUFFER_M exceeds    *)
(* the alt of the segment's first waypoint; every inserted CRUISE_DETOUR   *)
(* has alt = height at its sample + SAFETY_BUFFER_M + 10, so more than 10  *)
(* above the waypoint it is inserted after; null and absent entries and    *)
(* failed queries yield none.                                              *)
C27_DetourExactlyOnCollision ==
    [][Settlement =>
          LET answer == Last(clamped').positions
              wp == At(waypoints, segmentIdx)
              nextWp == At(waypoints, segmentIdx + 1)
              points == IF answer = NullAnswer THEN <<>>
                        ELSE collisionPointsOf(wp, nextWp, answer.array)
          IN  /\ Len(points) = Cardinality(TooHigh(answer, wp))
              /\ { points[k].obstacleHeight : k \in 1..Len(points) }
                   = { SurfaceHeight(answer, j) : j \in TooHigh(answer, wp) }
              /\ \A k \in 1..Len(Pushed) :
                    /\ Pushed[k].phase = "CRUISE_DETOUR"
                    /\ \E j \in TooHigh(answer, wp) :
                          /\ Pushed[k].obstacleHeight = SurfaceHeight(answer, j)
                          /\ Pushed[k].alt = SurfaceHeight(answer, j)
                                               + ENGINE_CONFIG.SAFETY_BUFFER_M + 10
                    /\ Pushed[k].alt > wp.alt + 10
              /\ Pushed = <<>> <=> TooHigh(answer, wp) = {}
              /\ Last(clamped').failed => Pushed = <<>>]_vars

(* An answer with two unresolved samples and two tall ones led to the two  *)
(* detours                                                                 *)
C27_Witness ==
    /\ vpc = "loop"
    /\ clamped # <<>>
    /\ Last(clamped).positions
         = ArrayAnswer(<<Undefined, TallSurface, Undefined, TallSurface + 1>>)
    /\ Len(fixedWaypoints) >= 3
    /\ fixedWaypoints[Len(fixedWaypoints) - 1].phase = "CRUISE_DETOUR"
    /\ fixedWaypoints[Len(fixedWaypoints) - 1].obstacleHeight = TallSurface
    /\ fixedWaypoints[Len(fixedWaypoints)].phase = "CRUISE_DETOUR"
    /\ fixedWaypoints[Len(fixedWaypoints)].obstacleHeight = TallSurface + 1

-----------------------------------------------------------------------------
(* The number of pops so far that did not close the popped node: the goal  *)
GoalPops == Len(astar.finalNode)

(* C28: the search loop terminates.  No two entries of the open set have   *)
(* the same id and none has a closed id, so a node is popped at most once: *)
(* every pop but the goal's closes a new node, nodesVisited never exceeds  *)
(* numLanes * numSteps, and the loop is left after finitely many pops.     *)
C28_SearchTerminates ==
    /\ [](/\ \A a, b \in 1..Len(astar.openSet) :
                Id(astar.openSet[a]) = Id(astar.openSet[b]) => a = b
          /\ \A a \in 1..Len(astar.openSet) :
                Id(astar.openSet[a]) \notin astar.closedSet
          /\ astar.nodesVisited = Cardinality(astar.closedSet) + GoalPops
          /\ astar.closedSet \subseteq
                { <<id[2], id[1]>> : id \in Cells(<<numLanesOf(grid), numStepsOf(grid)>>) }
          /\ astar.nodesVisited <= numLanesOf(grid) * numStepsOf(grid))
    /\ [][pc = "search" /\ astar.openSet # <<>> =>
            /\ astar'.nodesVisited = astar.nodesVisited + 1
            /\ Id(Current(astar)) \notin astar.closedSet
            /\ \A a \in 1..Len(astar'.openSet) :
                  Id(astar'.openSet[a]) # Id(Current(astar))]_vars
    /\ <>(~LoopGuard)
    /\ <>(pc # "search")

(* A search on a grid of 12 nodes that made 10 pops before it was left *)
C28_Witness ==
    /\ pc = "done"
    /\ numLanesOf(grid) * numStepsOf(grid) = 12
    /\ astar.nodesVisited >= 10

-----------------------------------------------------------------------------
OutPhase(k) == validated[k].phase

(* C29: in the list validateAndFixSegments returns every CRUISE_DETOUR     *)
(* lies between the VERTICAL_ASCENT and the VERTICAL_DESCENT of its leg:   *)
(* a VERTICAL_DESCENT is still directly followed by a ground waypoint and  *)
(* no CRUISE_DETOUR is next to a ground waypoint.                          *)
C29_DetoursStayInsideCruise ==
    Returned =>
        \A k \in 1..Len(validated) :
            /\ OutPhase(k) = "VERTICAL_DESCENT" =>
                  k < Len(validated) /\ OutPhase(k + 1) \in GroundPhases
            /\ OutPhase(k) = "CRUISE_DETOUR" =>
                  /\ k > 1 /\ OutPhase(k - 1) \notin GroundPhases
                  /\ k < Len(validated) /\ OutPhase(k + 1) \notin GroundPhases
                  /\ \E a \in 1..(k - 1) : \E d \in (k + 1)..Len(validated) :
                        /\ OutPhase(a) = "VERTICAL_ASCENT"
                        /\ OutPhase(d) = "VERTICAL_DESCENT"
                        /\ \A x \in (a + 1)..(d - 1) :
                              OutPhase(x) \notin GroundPhases
                                  \cup {"VERTICAL_ASCENT", "VERTICAL_DESCENT"}


-----------------------------------------------------------------------------
(* A path addressed to /v1/geofences or below it, the check and the        *)
(* check-route endpoints apart                                             *)
GeofencesCheck == <<"/v1", "/geofences", "/check">>

GeofencesCheckRoute == <<"/v1", "/geofences", "/check", "-route">>

ToGeofences(r) ==
    /\ startsWith(requestPath(r), <<"/v1", "/geofences">>)
    /\ requestPath(r) \notin { GeofencesCheck, GeofencesCheckRoute }

ToAdmin(r) == startsWith(requestPath(r), <<"/v1", "/admin">>)

AuthorityOnly(r) ==
    \/ r.method \in WriteMethods /\ ToGeofences(r)
    \/ r.method # "GET" /\ ToAdmin(r)

(* C30: once the proxy has taken up a request of a session whose role is   *)
(* not 'authority', and the request is a POST, PUT, PATCH or DELETE to     *)
(* /v1/geofences or below (check and check-route apart) or a non-GET       *)
(* request to /v1/admin or below, nothing has been sent to the ATC server  *)
(* and the response is 403 insufficient_role.                              *)
C30_AuthorityOnlyNeverForwarded ==
    (ppc # "idle" /\ ~isAuthority(req) /\ AuthorityOnly(req)) =>
        /\ atcRequests = <<>>
        /\ res = [status |-> 403, message |-> "insufficient_role"]

=============================================================================
